---------------------------- MODULE Spec2Model ----------------------------
(***************************************************************************)
(* Research assistant: the ingestion / summarisation / library pipeline of *)
(* the four front-ends                                                     *)
(*   cli    : research_assistant.py                                        *)
(*   basic  : research_assistant_streamlit.py                              *)
(*   light  : research_assistant_streamlit_light.py                        *)
(*   modern : research_assistant_streamlit_modern.py                       *)
(* A text is a sequence of one-character strings.  An Optional[T] field is *)
(* a set with at most one element ({} is None).                            *)
(***************************************************************************)
EXTENDS Integers, Sequences, FiniteSets

Variants == {"cli", "basic", "light", "modern"}

VARIABLES
  variant,      \* the front-end that is running
  in_text,      \* summariser run: the input text
  in_sentences, \* summariser run: the sentence bound
  out,          \* summariser run: the returned summary ({} before the call)
  library,      \* the in-memory list of Papers (st.session_state.library)
  disk,         \* the library file
  lastOp,       \* what the last library operation was and how it ended
  faults,       \* the number of writes and deletions that have failed so far
  pdf_library,  \* the in-memory list of PDFDocs (st.session_state.pdf_library)
  pdf_disk,     \* the PDF index file
  pdf_dir,      \* the storage directory: path -> content
  uploaded,     \* the files the upload widget holds
  pdfOp,        \* what the last PDF script run did
  has_reader,   \* whether PyPDF2 could be imported (PdfReader is not None)
  raw_item,     \* normaliser run: the item of a Crossref answer
  norm_out,     \* normaliser run: the search result made of it ({} before)
  response,     \* normaliser run: the items of a Crossref answer
  search_out,   \* normaliser run: what search_crossref gave for them ({} before)
  pdf_doc,      \* extraction run: the document as PdfReader sees it
  extracted     \* extraction run: the text, page count and summary ({} before)

summVars == << in_text, in_sentences, out >>
libVars  == << library, disk, lastOp >>
pdfVars  == << pdf_library, pdf_disk, pdf_dir, uploaded, pdfOp, has_reader >>
normVars == << raw_item, norm_out, response, search_out >>
extractVars == << pdf_doc, extracted >>

vars == << variant, summVars, libVars, faults, pdfVars, normVars, extractVars >>

-----------------------------------------------------------------------------
(* Characters and the classes the regular expressions of the code use.     *)

Str0 == << >>

\* \s of Python's re on str, and the characters str.strip() removes
IsSpace(c) == c \in {" ", "\n"}

\* [a-zA-Z]
IsAsciiLetter(c) == c \in {"a", "b", "c", "A", "B"}

\* \w : letters, digits and the underscore
IsWordChar(c) == IsAsciiLetter(c) \/ c \in {"1", "_"}

\* str.lower()
LowerChar(c) == IF c = "A" THEN "a" ELSE IF c = "B" THEN "b" ELSE c

Lower(s) == [i \in 1..Len(s) |-> LowerChar(s[i])]

\* [.!?]
LatinTerminators == {".", "!", "?"}

\* [.!?] and the three full-width terminators U+3002, U+FF01, U+FF1F of the
\* light and modern front-ends; the character "MARU" stands for U+3002
WideTerminators == LatinTerminators \cup {"MARU"}

RECURSIVE LStrip(_)
LStrip(s) == IF s # << >> /\ IsSpace(Head(s)) THEN LStrip(Tail(s)) ELSE s

RECURSIVE RStrip(_)
RStrip(s) ==
  IF s # << >> /\ IsSpace(s[Len(s)]) THEN RStrip(SubSeq(s, 1, Len(s) - 1)) ELSE s

\* str.strip()
Strip(s) == RStrip(LStrip(s))

\* re.sub(r"\s+", " ", s)
RECURSIVE CollapseSpaces(_)
CollapseSpaces(s) ==
  IF s = << >> THEN << >>
  ELSE IF IsSpace(Head(s))
       THEN << " " >> \o CollapseSpaces(LStrip(s))
       ELSE << Head(s) >> \o CollapseSpaces(Tail(s))

\* " ".join(parts)
RECURSIVE JoinWith(_, _)
JoinWith(parts, sep) ==
  IF parts = << >> THEN << >>
  ELSE IF Len(parts) = 1 THEN parts[1]
  ELSE parts[1] \o sep \o JoinWith(Tail(parts), sep)

\* [x for x in parts if x.strip()] after [s.strip() for s in parts]
RECURSIVE StripAndDropEmpty(_)
StripAndDropEmpty(parts) ==
  IF parts = << >> THEN << >>
  ELSE IF Strip(Head(parts)) = << >> THEN StripAndDropEmpty(Tail(parts))
       ELSE << Strip(Head(parts)) >> \o StripAndDropEmpty(Tail(parts))

-----------------------------------------------------------------------------
(* re.split(r"(?<=[TERMS])\s+", text): the text is cut at every maximal    *)
(* run of whitespace that directly follows a terminator; the run is        *)
(* dropped, and a run at the end of the text leaves an empty last piece.   *)

RECURSIVE SplitFrom(_, _, _, _, _)
SplitFrom(text, terms, i, cur, acc) ==
  IF i > Len(text) THEN Append(acc, cur)
  ELSE IF IsSpace(text[i]) /\ i > 1 /\ text[i - 1] \in terms
       THEN LET rest == LStrip(SubSeq(text, i, Len(text)))
                j    == Len(text) - Len(rest) + 1
            IN  SplitFrom(text, terms, j, << >>, Append(acc, cur))
       ELSE SplitFrom(text, terms, i + 1, Append(cur, text[i]), acc)

re_split(text, terms) == SplitFrom(text, terms, 1, << >>, << >>)

-----------------------------------------------------------------------------
(* Tokens.                                                                 *)

\* the maximal runs of characters of a class, left to right
RECURSIVE RunsFrom(_, _, _, _)
RunsFrom(s, i, cur, acc) ==
  IF i > Len(s) THEN (IF cur = << >> THEN acc ELSE Append(acc, cur))
  ELSE IF IsWordChar(s[i]) THEN RunsFrom(s, i + 1, Append(cur, s[i]), acc)
  ELSE RunsFrom(s, i + 1, << >>, IF cur = << >> THEN acc ELSE Append(acc, cur))

WordRuns(s) == RunsFrom(s, 1, << >>, << >>)

AllAsciiLetters(w) == \A i \in 1..Len(w) : IsAsciiLetter(w[i])

RECURSIVE SelectSeqBy(_, _)
SelectSeqBy(ws, minLen) ==
  IF ws = << >> THEN << >>
  ELSE IF Len(Head(ws)) >= minLen THEN << Head(ws) >> \o SelectSeqBy(Tail(ws), minLen)
       ELSE SelectSeqBy(Tail(ws), minLen)

RECURSIVE OnlyAscii(_)
OnlyAscii(ws) ==
  IF ws = << >> THEN << >>
  ELSE IF AllAsciiLetters(Head(ws)) THEN << Head(ws) >> \o OnlyAscii(Tail(ws))
       ELSE OnlyAscii(Tail(ws))

MinTokenAscii == 3
MinTokenWide == 2

\* re.findall(r"\b[a-zA-Z]{3,}\b", s): a run of word characters made of
\* ASCII letters only, at least three long (a run holding a digit or an
\* underscore has no word boundary inside it and yields nothing)
tokens_ascii(s) == SelectSeqBy(OnlyAscii(WordRuns(s)), MinTokenAscii)

\* re.findall(r"[\w...]{2,}", s): every run of word characters at least two long
tokens_wide(s) == SelectSeqBy(WordRuns(s), MinTokenWide)

\* the number of occurrences of token w in the token sequence ws
RECURSIVE CountIn(_, _)
CountIn(w, ws) ==
  IF ws = << >> THEN 0
  ELSE (IF Head(ws) = w THEN 1 ELSE 0) + CountIn(w, Tail(ws))

RECURSIVE Flatten(_)
Flatten(wss) == IF wss = << >> THEN << >> ELSE Head(wss) \o Flatten(Tail(wss))

RECURSIVE SumFreq(_, _)
SumFreq(ws, all) ==
  IF ws = << >> THEN 0 ELSE CountIn(Head(ws), all) + SumFreq(Tail(ws), all)

-----------------------------------------------------------------------------
(* summarise_text.                                                         *)

\* seq[:k] of Python: the first k elements, and for a negative k all but
\* the last -k
SliceTo(n, k) == IF k >= 0 THEN (IF k < n THEN k ELSE n)
                 ELSE (IF n + k > 0 THEN n + k ELSE 0)

\* the score of every sentence: the sum of its tokens' global frequencies;
\* the tokens are those of the wide pattern or of the ASCII pattern
Scores(sents, wide) ==
  LET toks == [i \in 1..Len(sents) |->
                 IF wide THEN tokens_wide(Lower(sents[i]))
                 ELSE tokens_ascii(Lower(sents[i]))]
  IN  [i \in 1..Len(sents) |-> SumFreq(toks[i], Flatten(toks))]

\* a sort that puts the later of two sentences of the same score first
RankOf_LaterFirst(score, i) ==
  Cardinality({j \in DOMAIN score :
                 score[j] > score[i] \/ (score[j] = score[i] /\ j > i)}) + 1

\* sorted(scored, key=score, reverse=True): a stable sort, so the place of
\* sentence i is the number of sentences that score higher, or the same
\* and stand earlier
RankOf(score, i) ==
  Cardinality({j \in DOMAIN score :
                 score[j] > score[i] \/ (score[j] = score[i] /\ j < i)}) + 1

\* a slice that takes one sentence more than asked for
TopSet_OneMore(score, k) ==
  {i \in DOMAIN score : RankOf(score, i) <= SliceTo(Len(score), k + 1)}

\* sorted(...)[:sentences] : the positions of the chosen sentences
TopSet(score, k) ==
  {i \in DOMAIN score : RankOf(score, i) <= SliceTo(Len(score), k)}

\* sorted(top, key=lambda x: x[1]) of the light front-end: by position
SortByPosition(top) ==
  [p \in 1..Cardinality(top) |->
     CHOOSE i \in top : Cardinality({j \in top : j < i}) = p - 1]

\* raw_sentences.index(s): the first position holding the text s
FirstIndex(sents, s) == CHOOSE i \in 1..Len(sents) :
                          sents[i] = s /\ \A j \in 1..(i - 1) : sents[j] # s

\* sorted(top, key=lambda x: sents.index(x[1])): a stable sort of the
\* score-ordered list by the first position of each sentence's text
SortByFirstIndex(sents, score, top) ==
  LET key(i) == FirstIndex(sents, sents[i])
      before(j, i) == key(j) < key(i)
                      \/ (key(j) = key(i) /\ RankOf(score, j) < RankOf(score, i))
  IN  [p \in 1..Cardinality(top) |->
         CHOOSE i \in top : Cardinality({j \in top : before(j, i)}) = p - 1]

StripEach(sents) == [i \in 1..Len(sents) |-> Strip(sents[i])]

Pick(sents, order) == [p \in 1..Len(order) |-> sents[order[p]]]

\* research_assistant.py and research_assistant_streamlit.py (same code)
summarise_text_cli(text, sentences) ==
  LET raw_sentences == re_split(text, LatinTerminators)
  IN  IF Len(raw_sentences) <= sentences THEN text
      ELSE LET score == Scores(raw_sentences, FALSE)
               top   == TopSet(score, sentences)
               top_sentences_sorted == SortByFirstIndex(raw_sentences, score, top)
           IN  JoinWith(StripEach(Pick(raw_sentences, top_sentences_sorted)), << " " >>)

summarise_text_modern(text, sentences) ==
  LET sents == StripAndDropEmpty(re_split(Strip(text), WideTerminators))
  IN  IF Len(sents) <= sentences THEN JoinWith(sents, << " " >>)
      ELSE LET score == Scores(sents, TRUE)
               top   == TopSet(score, sentences)
               top_s == SortByFirstIndex(sents, score, top)
           IN  JoinWith(Pick(sents, top_s), << " " >>)

summarise_text_light(text0, sentences) ==
  LET text == Strip(CollapseSpaces(text0))
  IN  IF text = << >> THEN << >>
      ELSE LET raw == StripAndDropEmpty(re_split(text, WideTerminators))
           IN  IF Len(raw) <= sentences THEN JoinWith(raw, << " " >>)
               ELSE LET score == Scores(raw, TRUE)
                        top   == TopSet(score, sentences)
                        top_sorted == SortByPosition(top)
                    IN  JoinWith(Pick(raw, top_sorted), << " " >>)

summarise_text(v, text, sentences) ==
  CASE v = "light"  -> summarise_text_light(text, sentences)
    [] v = "modern" -> summarise_text_modern(text, sentences)
    [] OTHER        -> summarise_text_cli(text, sentences)

RECURSIVE SeqsUpTo(_, _)
SeqsUpTo(S, n) ==
  IF n = 0 THEN { << >> }
  ELSE LET shorter == SeqsUpTo(S, n - 1)
       IN  shorter \cup { Append(q, x) : q \in shorter, x \in S }

-----------------------------------------------------------------------------
(* Papers and the library file.                                            *)

SUMMARY_SENTENCES == 3
LightSearchSentences == 4

RequiredFields == {"doi", "title", "authors", "journal", "year", "abstract", "summary"}

\* the fields of the Paper dataclass: light adds added_at
FieldsOf(v) == RequiredFields \cup {"read"}
               \cup (IF v = "light" THEN {"added_at"} ELSE {})

Paper(doi, title, year, abstract, summary) ==
  [doi |-> doi, title |-> title, authors |-> "Unknown", journal |-> "",
   year |-> year, abstract |-> abstract, summary |-> summary,
   read |-> FALSE, added_at |-> ""]

\* A file is missing, unparseable ("garbage": not JSON, or cut short by a
\* failed write), a JSON value that is no array or object ("scalar"), or a
\* JSON array ("list") of items.  An item is a JSON object with the keys
\* `keys` and the values p, or (obj = FALSE) something that is no object.
MissingFile == [kind |-> "missing", items |-> << >>]
GarbageFile == [kind |-> "garbage", items |-> << >>]
ScalarFile  == [kind |-> "scalar", items |-> << >>]
ListFile(items) == [kind |-> "list", items |-> items]

\* dataclasses.asdict(p): the fields of the dataclass and their values
asdict(v, p) ==
  [obj |-> TRUE, keys |-> FieldsOf(v), p |-> [k \in FieldsOf(v) |-> p[k]]]

\* Paper(**item) raises TypeError for a non-mapping, a missing required
\* argument or an unexpected keyword
CanConstruct(v, item) ==
  item.obj /\ RequiredFields \subseteq item.keys /\ item.keys \subseteq FieldsOf(v)

\* Paper(**item): read and added_at take their defaults when absent
Construct(item) ==
  [k \in RequiredFields \cup {"read", "added_at"} |->
     IF k \in item.keys THEN item.p[k]
     ELSE IF k = "read" THEN FALSE ELSE ""]

RECURSIVE ConstructWellFormed(_, _)
ConstructWellFormed(v, items) ==
  IF items = << >> THEN << >>
  ELSE IF CanConstruct(v, Head(items))
       THEN << Construct(Head(items)) >> \o ConstructWellFormed(v, Tail(items))
       ELSE ConstructWellFormed(v, Tail(items))

\* load_library of research_assistant.py and research_assistant_streamlit.py:
\* the whole body is inside one try, any exception gives []
load_library_cli(file) ==
  IF file.kind # "list" THEN [raised |-> FALSE, lib |-> << >>]
  ELSE IF \A i \in 1..Len(file.items) : CanConstruct("cli", file.items[i])
       THEN [raised |-> FALSE,
             lib |-> [i \in 1..Len(file.items) |-> Construct(file.items[i])]]
       ELSE [raised |-> FALSE, lib |-> << >>]

\* load_library of the light and modern front-ends: _load_json gives the
\* default [] for a missing or unparseable file; the loop over the parsed
\* value is outside any try and skips the items Paper(**d) refuses
load_library_skip(v, file) ==
  IF file.kind \in {"missing", "garbage"} THEN [raised |-> FALSE, lib |-> << >>]
  ELSE IF file.kind = "scalar" THEN [raised |-> TRUE, lib |-> << >>]
  ELSE [raised |-> FALSE, lib |-> ConstructWellFormed(v, file.items)]

load_library(v, file) ==
  IF v \in {"cli", "basic"} THEN load_library_cli(file) ELSE load_library_skip(v, file)

\* what a write does to the file: it succeeds, it fails before the file is
\* opened (the file keeps its content), or it fails after open(path, "w")
\* truncated the file (the file is left cut short)
IOOutcomes == {"ok", "fail_open", "fail_partial"}

\* a write that does not truncate: what the file held beyond the new list stays
write_json_KeepTail(file, items, io) ==
  CASE io = "ok" ->
         ListFile(items \o (IF file.kind = "list" /\ Len(file.items) > Len(items)
                            THEN SubSeq(file.items, Len(items) + 1, Len(file.items))
                            ELSE << >>))
    [] io = "fail_open"    -> file
    [] io = "fail_partial" -> GarbageFile

\* open(path, "w") and json.dump(data, f)
write_json(file, items, io) ==
  CASE io = "ok"           -> ListFile(items)
    [] io = "fail_open"    -> file
    [] io = "fail_partial" -> GarbageFile

\* save_library: json.dump([asdict(p) for p in library])
save_library(v, file, lib, io) ==
  write_json(file, [i \in 1..Len(lib) |-> asdict(v, lib[i])], io)

\* cli and basic catch the exception of a failed write and print a message;
\* light and modern let it propagate out of the handler
SaveRaises(v, io) == v \in {"light", "modern"} /\ io # "ok"

-----------------------------------------------------------------------------
(* The library operations.  Each gives the list, the file and the record   *)
(* of what happened.  Positions are 1-based here (idx + 1 of the code).    *)

Done(lib, file, op, added, rejected, write, raised, signal) ==
  [lib |-> lib, disk |-> file, fails |-> IF write = "failed" THEN 1 ELSE 0,
   op |-> [op |-> op, added |-> added, rejected |-> rejected, write |-> write,
           raised |-> raised, signal |-> signal, args |-> {}]]

\* the record of an operation names the papers it was given: those to add,
\* or the stored ones that its index denotes
Key(p) == [doi |-> p.doi, title |-> p.title]

WithArgs(r, papers) == [r EXCEPT !.op.args = { Key(q) : q \in papers }]

WriteResult(io) == IF io = "ok" THEN "ok" ELSE "failed"

RemoveAt(q, idx) == [j \in 1..(Len(q) - 1) |-> IF j < idx THEN q[j] ELSE q[j + 1]]

\* datetime.now().isoformat(timespec="seconds")
Now == "now"

\* the comparison made on the title instead of the doi
AnyDoi_ByTitle(lib, p) == \E j \in 1..Len(lib) : lib[j].title = p.title

\* any(x.doi == p.doi for x in lib)
AnyDoi(lib, p) == \E j \in 1..Len(lib) : lib[j].doi = p.doi

\* any(x.title == p.title and (not p.doi) for x in lib)
AnyTitleLight(lib, p) == \E j \in 1..Len(lib) : lib[j].title = p.title /\ p.doi = ""

\* upsert_paper with the new paper put before the stored ones
upsert_paper_Prepend(lib, file, p0, io) ==
  LET p == IF p0.added_at = "" THEN [p0 EXCEPT !.added_at = Now] ELSE p0
  IN  IF p.doi # "" /\ AnyDoi(lib, p)
      THEN Done(lib, file, "add", 0, 1, "none", FALSE, {"exists"})
      ELSE IF AnyTitleLight(lib, p)
      THEN Done(lib, file, "add", 0, 1, "none", FALSE, {"exists"})
      ELSE Done(<< p >> \o lib, save_library("light", file, << p >> \o lib, io),
                "add", 1, 0, WriteResult(io), io # "ok",
                IF io = "ok" THEN {"added"} ELSE {"exception"})

\* light: upsert_paper
upsert_paper(lib, file, p0, io) ==
  LET p == IF p0.added_at = "" THEN [p0 EXCEPT !.added_at = Now] ELSE p0
  IN  IF p.doi # "" /\ AnyDoi(lib, p)
      THEN Done(lib, file, "add", 0, 1, "none", FALSE, {"exists"})
      ELSE IF AnyTitleLight(lib, p)
      THEN Done(lib, file, "add", 0, 1, "none", FALSE, {"exists"})
      ELSE Done(Append(lib, p), save_library("light", file, Append(lib, p), io),
                "add", 1, 0, WriteResult(io), io # "ok",
                IF io = "ok" THEN {"added"} ELSE {"exception"})

\* modern: add_paper_to_library
add_paper_to_library(lib, file, paper, io) ==
  IF paper.doi # "" /\ AnyDoi(lib, paper)
  THEN Done(lib, file, "add", 0, 1, "none", FALSE, {"exists"})
  ELSE Done(Append(lib, paper), save_library("modern", file, Append(lib, paper), io),
            "add", 1, 0, WriteResult(io), io # "ok",
            IF io = "ok" THEN {"added"} ELSE {"exception"})

\* if paper.abstract and not paper.summary: paper.summary = summarise_text(paper.abstract)
fill_summary(paper) ==
  IF paper.abstract \notin {{}, {Str0}} /\ paper.summary \in {{}, {Str0}}
  THEN [paper EXCEPT !.summary =
          { summarise_text_cli(a, SUMMARY_SENTENCES) : a \in paper.abstract }]
  ELSE paper

\* add_to_library with the save after the if instead of inside it
add_to_library_SaveOutsideIf(lib, file, paper, io) ==
  IF ~ AnyDoi(lib, paper)
  THEN LET lib2 == Append(lib, fill_summary(paper))
       IN  Done(lib2, save_library("basic", file, lib2, io), "add", 1, 0,
                WriteResult(io), FALSE,
                IF io = "ok" THEN {"added"} ELSE {"save_error", "added"})
  ELSE Done(lib, save_library("basic", file, lib, io), "add", 0, 1,
            WriteResult(io), FALSE, {"exists"})

\* basic: add_to_library
add_to_library(lib, file, paper, io) ==
  IF ~ AnyDoi(lib, paper)
  THEN LET lib2 == Append(lib, fill_summary(paper))
       IN  Done(lib2, save_library("basic", file, lib2, io), "add", 1, 0,
                WriteResult(io), FALSE,
                IF io = "ok" THEN {"added"} ELSE {"save_error", "added"})
  ELSE Done(lib, file, "add", 0, 1, "none", FALSE, {"exists"})

\* cli: the loop of search_and_save over the chosen results
RECURSIVE save_loop(_, _, _, _)
save_loop(lib, batch, added, rejected) ==
  IF batch = << >> THEN [lib |-> lib, added |-> added, rejected |-> rejected]
  ELSE IF ~ AnyDoi(lib, Head(batch))
       THEN save_loop(Append(lib, fill_summary(Head(batch))), Tail(batch),
                      added + 1, rejected)
       ELSE save_loop(lib, Tail(batch), added, rejected + 1)

\* cli: search_and_save, from the choice of the indices on
search_and_save(lib, file, batch, io) ==
  LET r == save_loop(lib, batch, 0, 0)
      said == IF r.rejected > 0 THEN {"exists"} ELSE {}
  IN  IF r.added > 0
      THEN Done(r.lib, save_library("cli", file, r.lib, io), "add", r.added,
                r.rejected, WriteResult(io), FALSE,
                said \cup (IF io = "ok" THEN {"added"} ELSE {"save_error", "added"}))
      ELSE Done(r.lib, file, "add", 0, r.rejected, "none", FALSE,
                said \cup {"none_added"})

\* toggle_read of light without the save
toggle_read_light_NoSave(lib, file, idx, value, io) ==
  IF 1 <= idx /\ idx <= Len(lib)
  THEN Done([lib EXCEPT ![idx].read = value], file, "setRead", 0, 0, "ok", FALSE, {})
  ELSE Done(lib, file, "setRead", 0, 0, "none", FALSE, {})

\* light: toggle_read(idx, value)
toggle_read_light(lib, file, idx, value, io) ==
  IF 1 <= idx /\ idx <= Len(lib)
  THEN LET lib2 == [lib EXCEPT ![idx].read = value]
       IN  Done(lib2, save_library("light", file, lib2, io), "setRead", 0, 0,
                WriteResult(io), io # "ok", IF io = "ok" THEN {} ELSE {"exception"})
  ELSE Done(lib, file, "setRead", 0, 0, "none", FALSE, {})

\* basic: toggle_read(idx), the on_change callback of the checkbox
toggle_read_basic(lib, file, idx, io) ==
  IF idx > Len(lib)
  THEN Done(lib, file, "setRead", 0, 0, "none", TRUE, {"exception"})  \* IndexError
  ELSE LET lib2 == [lib EXCEPT ![idx].read = ~ lib[idx].read]
       IN  Done(lib2, save_library("basic", file, lib2, io), "setRead", 0, 0,
                WriteResult(io), FALSE, IF io = "ok" THEN {} ELSE {"save_error"})

\* modern: main, "sync read status": the checkbox of the selected paper
\* holds `state`; a difference is written to the paper and saved
sync_read_status(lib, file, idx, state, io) ==
  IF state # lib[idx].read
  THEN LET lib2 == [lib EXCEPT ![idx].read = state]
       IN  Done(lib2, save_library("modern", file, lib2, io), "setRead", 0, 0,
                WriteResult(io), io # "ok", IF io = "ok" THEN {} ELSE {"exception"})
  ELSE Done(lib, file, "setRead", 0, 0, "none", FALSE, {})

\* cli: the loop of mark_read_status over the chosen indices
RECURSIVE toggle_loop(_, _)
toggle_loop(lib, indices) ==
  IF indices = << >> THEN lib
  ELSE toggle_loop([lib EXCEPT ![Head(indices)].read = ~ lib[Head(indices)].read],
                   Tail(indices))

\* cli: mark_read_status
mark_read_status(lib, file, indices, io) ==
  IF lib = << >> \/ indices = << >>
  THEN Done(lib, file, "setRead", 0, 0, "none", FALSE, {"no_changes"})
  ELSE LET lib2 == toggle_loop(lib, indices)
       IN  Done(lib2, save_library("cli", file, lib2, io), "setRead", 0, 0,
                WriteResult(io), FALSE, IF io = "ok" THEN {} ELSE {"save_error"})

\* light: remove_paper(idx) ; modern: delete_paper_by_index(idx)
remove_paper(v, lib, file, idx, io) ==
  IF 1 <= idx /\ idx <= Len(lib)
  THEN LET lib2 == RemoveAt(lib, idx)
       IN  Done(lib2, save_library(v, file, lib2, io), "remove", 0, 0,
                WriteResult(io), io # "ok", IF io = "ok" THEN {} ELSE {"exception"})
  ELSE Done(lib, file, "remove", 0, 0, "none", FALSE, {})

\* light and modern: the rerun that st.rerun() starts after a removal.  The
\* checkbox of the library tab is keyed by the position (read_<idx>,
\* lib_read_<idx>); when Streamlit keeps the state of that key (`kept`),
\* the paper now at the position gets the flag the removed paper showed.
rerun_after_remove(v, r, idx, state, kept, io2) ==
  IF r.op.raised \/ r.op.write = "none" \/ ~ kept \/ idx > Len(r.lib)
     \/ r.lib[idx].read = state
  THEN r
  ELSE LET lib2 == [r.lib EXCEPT ![idx].read = state]
       IN  [Done(lib2, save_library(v, r.disk, lib2, io2), "remove", 0, 0,
                 WriteResult(io2), io2 # "ok",
                 IF io2 = "ok" THEN {} ELSE {"exception"})
              EXCEPT !.fails = @ + r.fails]

\* cli: display_paper(library[idx]) from list_library fills the summary of
\* the paper in memory; nothing is saved
display_paper(lib, file, idx) ==
  Done([lib EXCEPT ![idx] = fill_summary(lib[idx])], file, "display", 0, 0,
       "none", FALSE, {})

\* basic: main, the library section of every script run: a paper with an
\* abstract and no summary gets its summary, and the library is saved (the
\* file after the last save is what stays)
RECURSIVE FillAll(_)
FillAll(lib) ==
  IF lib = << >> THEN << >> ELSE << fill_summary(Head(lib)) >> \o FillAll(Tail(lib))

render_library_basic(r, io) ==
  IF r.op.raised \/ FillAll(r.lib) = r.lib THEN r
  ELSE [Done(FillAll(r.lib), save_library("basic", r.disk, FillAll(r.lib), io),
             r.op.op, r.op.added, r.op.rejected, WriteResult(io), FALSE,
             r.op.signal \cup (IF io = "ok" THEN {} ELSE {"save_error"}))
          EXCEPT !.fails = @ + r.fails]

\* "aaa. aab."
Abstract1 == <<"a", "a", "a", ".", " ", "a", "a", "b", ".">>

-----------------------------------------------------------------------------
(* PDF documents (light and modern).  A content is the bytes of an upload, *)
(* a path stands for PDF_DIR / f"{doc_id}_{safe_name}" as the pair of the  *)
(* two parts, the storage directory maps the paths of its files to what    *)
(* they hold, and a message of the program is a text of one atom.          *)

Contents == {"pdfA", "pdfB", "pdfC"}

\* hashlib.sha256(b).hexdigest(), as the pair of its first 12 digits and the
\* rest: different contents have different digests, and the digests of pdfA
\* and pdfC begin with the same 12 digits
sha256_bytes(b) ==
  CASE b = "pdfA" -> << "p1", "x" >>
    [] b = "pdfB" -> << "p2", "x" >>
    [] OTHER      -> << "p1", "y" >>

\* sha[:12]
First12(sha) == sha[1]

\* PdfReader(...) raises on pdfC and on a file cut short by a failed write
Readable(content) == content \in {"pdfA", "pdfB"}

\* reader.pages[i].extract_text() gives the text of the page ("" or None
\* for a page without text), or raises
PageText(t) == [raises |-> FALSE, text |-> t]
PageRaises == [raises |-> TRUE, text |-> Str0]

\* the pages of the uploads: pdfA has one page of text, pdfB two pages of
\* images
PagesOf(content) ==
  IF content = "pdfA" THEN << PageText(Abstract1) >>
  ELSE << PageText(Str0), PageText(Str0) >>

\* a document as PdfReader sees it: whether it can be opened, and its pages
DocOf(content) == [readable |-> Readable(content), pages |-> PagesOf(content)]

MaxPagesLight == 10
MaxPagesModern == 12
PdfSummarySentences == 5

\* the texts of a list that are kept: `if txt` (light), `if txt.strip()` (modern)
RECURSIVE KeepParts(_, _)
KeepParts(parts, stripped) ==
  IF parts = << >> THEN << >>
  ELSE IF (IF stripped THEN Strip(Head(parts)) ELSE Head(parts)) = << >>
       THEN KeepParts(Tail(parts), stripped)
       ELSE << Head(parts) >> \o KeepParts(Tail(parts), stripped)

\* light: extract_text_from_pdf_bytes; one try block holds the whole loop,
\* so a page that raises ends the extraction with ("", None)
extract_text_from_pdf_bytes(reader, doc, max_pages) ==
  IF ~ reader \/ ~ doc.readable THEN [text |-> Str0, pages |-> {}]
  ELSE LET all == doc.pages
           pages == IF Len(all) < max_pages THEN Len(all) ELSE max_pages
           parts == KeepParts([i \in 1..pages |-> all[i].text], FALSE)
       IN  IF \E i \in 1..pages : all[i].raises
           THEN [text |-> Str0, pages |-> {}]
           ELSE [text |-> JoinWith(parts, << "\n" >>), pages |-> {Len(all)}]

\* summarise_pdf_bytes with the test of the text before that of the reader
summarise_pdf_bytes_TextFirst(reader, doc) ==
  LET e == extract_text_from_pdf_bytes(reader, doc, MaxPagesLight)
  IN  IF Strip(e.text) = << >>
      THEN [summary |-> << "MSG_NO_TEXT" >>, pages |-> e.pages]
      ELSE IF ~ reader THEN [summary |-> << "MSG_NO_PYPDF2" >>, pages |-> e.pages]
      ELSE [summary |-> summarise_text_light(e.text, PdfSummarySentences),
            pages |-> e.pages]

\* light: summarise_pdf_bytes
summarise_pdf_bytes(reader, doc) ==
  LET e == extract_text_from_pdf_bytes(reader, doc, MaxPagesLight)
  IN  IF ~ reader THEN [summary |-> << "MSG_NO_PYPDF2" >>, pages |-> e.pages]
      ELSE IF Strip(e.text) = << >>
      THEN [summary |-> << "MSG_NO_TEXT" >>, pages |-> e.pages]
      ELSE [summary |-> summarise_text_light(e.text, PdfSummarySentences),
            pages |-> e.pages]

\* modern: summarise_pdf_file(path), reading what the file holds; a page
\* that raises ends in the handler of the one try block
summarise_pdf_file(reader, doc) ==
  IF ~ reader THEN << "MSG_NO_PYPDF2" >>
  ELSE IF ~ doc.readable THEN << "MSG_READ_FAILED" >>
  ELSE LET all == doc.pages
           max_pages == IF Len(all) < MaxPagesModern THEN Len(all) ELSE MaxPagesModern
           text_parts == KeepParts([i \in 1..max_pages |-> all[i].text], TRUE)
           full == Strip(JoinWith(text_parts, << "\n" >>))
       IN  IF \E i \in 1..max_pages : all[i].raises THEN << "MSG_READ_FAILED" >>
           ELSE IF full = << >> THEN << "MSG_NO_TEXT" >>
           ELSE summarise_text_modern(full, SUMMARY_SENTENCES)

MaxFilenameLen == 180

\* light: sanitize_filename; the class of the second line is [\\/:*?"<>|]
sanitize_filename(name0) ==
  LET reserved == {"\\", "/", ":", "*", "?", "\"", "<", ">", "|"}
      name1 == SelectSeq(Strip(name0), LAMBDA c : c # "NUL")
      name2 == [i \in 1..Len(name1) |->
                  IF name1[i] \in reserved THEN "_" ELSE name1[i]]
      name3 == CollapseSpaces(name2)
  IN  IF Len(name3) > MaxFilenameLen THEN SubSeq(name3, 1, MaxFilenameLen) ELSE name3

\* [0-9A-Za-z...._\- ]
IsSafeChar(c) == IsAsciiLetter(c) \/ c \in {"0", "1", ".", "_", "-", " "}

\* modern: re.sub(r"[^0-9A-Za-z...._\- ]+", "_", uploaded.name): every run of
\* other characters becomes one underscore
RECURSIVE safe_name(_)
safe_name(name) ==
  IF name = << >> THEN << >>
  ELSE IF IsSafeChar(Head(name)) THEN << Head(name) >> \o safe_name(Tail(name))
  ELSE IF Len(name) > 1 /\ ~ IsSafeChar(name[2]) THEN safe_name(Tail(name))
  ELSE << "_" >> \o safe_name(Tail(name))

\* the names of the uploads: "a"  " b:*"
Names == { << "a" >>, << " ", "b", ":", "*" >> }

\* the values of the pure functions above on the uploads of the run
SummaryOfBytes ==
  [reader \in BOOLEAN, b \in Contents |-> summarise_pdf_bytes(reader, DocOf(b))]

SummaryOfFile ==
  [reader \in BOOLEAN, c \in Contents \cup {"partial"} |->
     summarise_pdf_file(reader, DocOf(c))]

SanitizedName == [name \in Names |-> sanitize_filename(name)]

SafeName == [name \in Names |-> safe_name(name)]

\* the PDFDoc dataclass of light and of modern
PDFDoc_light(doc_id, filename, path, sha, pages, summary) ==
  [doc_id |-> doc_id, filename |-> filename, path |-> path, sha256 |-> sha,
   pages |-> pages, summary |-> summary, added_at |-> Now]

PDFDoc_modern(id, filename, path, summary) ==
  [id |-> id, filename |-> filename, path |-> path, summary |-> summary]

PdfFieldsOf(v) ==
  IF v = "light"
  THEN {"doc_id", "filename", "path", "sha256", "pages", "summary", "added_at"}
  ELSE {"id", "filename", "path", "summary"}

\* d.sha256 (light), d.id (modern)
HashOf(d) == IF "sha256" \in DOMAIN d THEN d.sha256 ELSE d.id

\* asdict(p) for a PDFDoc
asdict_pdf(d) == [obj |-> TRUE, keys |-> DOMAIN d, p |-> d]

\* PDFDoc(**d) takes exactly the fields of the dataclass: none has a default
RECURSIVE ConstructPdfs(_, _)
ConstructPdfs(v, items) ==
  IF items = << >> THEN << >>
  ELSE IF Head(items).obj /\ Head(items).keys = PdfFieldsOf(v)
       THEN << Head(items).p >> \o ConstructPdfs(v, Tail(items))
       ELSE ConstructPdfs(v, Tail(items))

\* load_pdf_library: the default [] for a missing or unparseable file; the
\* loop over the parsed value is outside any try
load_pdf_library(v, file) ==
  IF file.kind \in {"missing", "garbage"} THEN [raised |-> FALSE, lib |-> << >>]
  ELSE IF file.kind = "scalar" THEN [raised |-> TRUE, lib |-> << >>]
  ELSE [raised |-> FALSE, lib |-> ConstructPdfs(v, file.items)]

\* save_pdf_library
save_pdf_library(file, items, io) ==
  write_json(file, [i \in 1..Len(items) |-> asdict_pdf(items[i])], io)

\* One script run threads a record st through its calls: the list, the
\* index file, the directory, the number n of input/output calls made so
\* far, whether an exception left the run, and the log of the uploads
\* handled.  env.F holds the numbers of the calls that fail in this run and
\* env.mode says how a failing write fails.
Fails(st, env) == (st.n + 1) \in env.F

IoOf(st, env) == IF Fails(st, env) THEN env.mode ELSE "ok"

\* with path.open("wb") as f: f.write(pdf_bytes)
write_bytes(dir, path, pdf_bytes, io) ==
  CASE io = "ok" ->
         [q \in DOMAIN dir \cup {path} |-> IF q = path THEN pdf_bytes ELSE dir[q]]
    [] io = "fail_open" -> dir
    [] io = "fail_partial" ->
         [q \in DOMAIN dir \cup {path} |-> IF q = path THEN "partial" ELSE dir[q]]

\* path.unlink(), os.remove(path)
unlink(dir, path, ok) ==
  IF ok THEN [q \in DOMAIN dir \ {path} |-> dir[q]] ELSE dir

LogEntry(name, pdf_bytes, dup, summarised, ret) ==
  [name |-> name, sha |-> sha256_bytes(pdf_bytes), dup |-> dup,
   summarised |-> summarised, ret |-> ret]

Logged(st, e) == [st EXCEPT !.log = Append(@, e)]

\* append the document, save_pdf_library(existing): the list of the session
\* is the list appended to, so the document stays in it when the save raises
AppendAndSave(st, env, doc, e) ==
  Logged([st EXCEPT !.lib = Append(@, doc),
                    !.disk = save_pdf_library(@, Append(st.lib, doc), IoOf(st, env)),
                    !.n = @ + 1,
                    !.raised = Fails(st, env)],
         [e EXCEPT !.ret = IF Fails(st, env) THEN {} ELSE {doc}])

\* add_pdf of light without the loop that looks for the sha
add_pdf_light_NoDedup(st, env, file_name, pdf_bytes, summary, pages, summarised) ==
  LET safe == SanitizedName[file_name]
      sha == sha256_bytes(pdf_bytes)
      doc_id == First12(sha)
      path == << doc_id, safe >>
  IN  IF Fails(st, env)
      THEN Logged([st EXCEPT !.dir = write_bytes(@, path, pdf_bytes, env.mode),
                             !.n = @ + 1, !.raised = TRUE],
                  LogEntry(file_name, pdf_bytes, FALSE, summarised, {}))
      ELSE AppendAndSave(
             [st EXCEPT !.dir = write_bytes(@, path, pdf_bytes, "ok"), !.n = @ + 1],
             env,
             PDFDoc_light(doc_id, safe, path, sha, pages, summary),
             LogEntry(file_name, pdf_bytes, FALSE, summarised, {}))

\* add_pdf of light giving the stored document the name of the new upload
add_pdf_light_RenameOnDup(st, env, file_name, pdf_bytes, summary, pages, summarised) ==
  LET safe == SanitizedName[file_name]
      sha == sha256_bytes(pdf_bytes)
      doc_id == First12(sha)
      path == << doc_id, safe >>
      found == {i \in 1..Len(st.lib) : st.lib[i].sha256 = sha}
      first == CHOOSE i \in found : \A j \in found : i <= j
  IN  IF found # {}
      THEN Logged([st EXCEPT !.lib[first].filename = safe],
                  LogEntry(file_name, pdf_bytes, TRUE, summarised,
                           {[st.lib[first] EXCEPT !.filename = safe]}))
      ELSE IF Fails(st, env)
      THEN Logged([st EXCEPT !.dir = write_bytes(@, path, pdf_bytes, env.mode),
                             !.n = @ + 1, !.raised = TRUE],
                  LogEntry(file_name, pdf_bytes, FALSE, summarised, {}))
      ELSE AppendAndSave(
             [st EXCEPT !.dir = write_bytes(@, path, pdf_bytes, "ok"), !.n = @ + 1],
             env,
             PDFDoc_light(doc_id, safe, path, sha, pages, summary),
             LogEntry(file_name, pdf_bytes, FALSE, summarised, {}))

\* light: add_pdf(file_name, pdf_bytes, summary, pages)
add_pdf_light(st, env, file_name, pdf_bytes, summary, pages, summarised) ==
  LET safe == SanitizedName[file_name]
      sha == sha256_bytes(pdf_bytes)
      doc_id == First12(sha)
      path == << doc_id, safe >>
      found == {i \in 1..Len(st.lib) : st.lib[i].sha256 = sha}
      first == CHOOSE i \in found : \A j \in found : i <= j
  IN  IF found # {}
      THEN Logged(st, LogEntry(file_name, pdf_bytes, TRUE, summarised, {st.lib[first]}))
      ELSE IF Fails(st, env)
      THEN Logged([st EXCEPT !.dir = write_bytes(@, path, pdf_bytes, env.mode),
                             !.n = @ + 1, !.raised = TRUE],
                  LogEntry(file_name, pdf_bytes, FALSE, summarised, {}))
      ELSE AppendAndSave(
             [st EXCEPT !.dir = write_bytes(@, path, pdf_bytes, "ok"), !.n = @ + 1],
             env,
             PDFDoc_light(doc_id, safe, path, sha, pages, summary),
             LogEntry(file_name, pdf_bytes, FALSE, summarised, {}))

\* light: main, the body of `for f in uploaded`
ingest_light(st, env, f) ==
  LET s == SummaryOfBytes[env.reader, f.content]
  IN  add_pdf_light(st, env, f.name, f.content, s.summary, s.pages, TRUE)

\* modern: add_pdf(uploaded); it returns nothing
add_pdf_modern(st, env, uploaded_file) ==
  LET data == uploaded_file.content
      pid == sha256_bytes(data)
      out_path == << First12(pid), SafeName[uploaded_file.name] >>
  IN  IF \E i \in 1..Len(st.lib) : st.lib[i].id = pid
      THEN Logged(st, LogEntry(uploaded_file.name, data, TRUE, FALSE, {}))
      ELSE IF Fails(st, env)
      THEN Logged([st EXCEPT !.dir = write_bytes(@, out_path, data, env.mode),
                             !.n = @ + 1, !.raised = TRUE],
                  LogEntry(uploaded_file.name, data, FALSE, FALSE, {}))
      ELSE LET st2 == [st EXCEPT !.dir = write_bytes(@, out_path, data, "ok"),
                                 !.n = @ + 1]
               summary == SummaryOfFile[env.reader, st2.dir[out_path]]
               r == AppendAndSave(st2, env,
                      PDFDoc_modern(pid, uploaded_file.name, out_path, summary),
                      LogEntry(uploaded_file.name, data, FALSE, TRUE, {}))
           IN  [r EXCEPT !.log[Len(r.log)].ret = {}]

\* main, the upload part of a script run: light takes every file the
\* widget holds, modern the one file; an exception ends the run
RECURSIVE ingest(_, _, _)
ingest(st, env, files) ==
  IF files = << >> \/ st.raised THEN st
  ELSE ingest(IF env.v = "light" THEN ingest_light(st, env, Head(files))
                                 ELSE add_pdf_modern(st, env, Head(files)),
              env, Tail(files))

\* if path.exists(): path.unlink(), any exception passed over
unlink_quietly(st, env, path) ==
  IF path \in DOMAIN st.dir
  THEN [st EXCEPT !.dir = unlink(@, path, ~ Fails(st, env)), !.n = @ + 1]
  ELSE st

\* remove_pdf, were a deletion that fails to end it
remove_pdf_StopOnUnlinkFailure(st, env, idx) ==
  IF 1 <= idx /\ idx <= Len(st.lib)
  THEN LET st2 == unlink_quietly(st, env, st.lib[idx].path)
           pdfs == RemoveAt(st.lib, idx)
       IN  IF st.lib[idx].path \in DOMAIN st2.dir THEN st2
           ELSE [st2 EXCEPT !.lib = pdfs,
                            !.disk = save_pdf_library(@, pdfs, IoOf(st2, env)),
                            !.n = @ + 1,
                            !.raised = Fails(st2, env)]
  ELSE st

\* light: remove_pdf(idx): the list of the session is the list popped, so
\* the document is gone from it when the save raises
remove_pdf(st, env, idx) ==
  IF 1 <= idx /\ idx <= Len(st.lib)
  THEN LET st2 == unlink_quietly(st, env, st.lib[idx].path)
           pdfs == RemoveAt(st.lib, idx)
       IN  [st2 EXCEPT !.lib = pdfs,
                       !.disk = save_pdf_library(@, pdfs, IoOf(st2, env)),
                       !.n = @ + 1,
                       !.raised = Fails(st2, env)]
  ELSE st

\* modern: the loop of delete_pdf_by_id over the list
RECURSIVE delete_loop(_, _, _, _)
delete_loop(st, env, docs, doc_id) ==
  IF docs = << >> THEN st
  ELSE IF Head(docs).id = doc_id
       THEN delete_loop(unlink_quietly(st, env, Head(docs).path), env, Tail(docs), doc_id)
       ELSE delete_loop(st, env, Tail(docs), doc_id)

\* modern: delete_pdf_by_id(doc_id): the list of the session is replaced
\* after the save, so it keeps the document when the save raises
delete_pdf_by_id(st, env, doc_id) ==
  LET keep == SelectSeq(st.lib, LAMBDA d : d.id # doc_id)
      st2 == delete_loop(st, env, st.lib, doc_id)
  IN  [st2 EXCEPT !.lib = IF Fails(st2, env) THEN @ ELSE keep,
                  !.disk = save_pdf_library(@, keep, IoOf(st2, env)),
                  !.n = @ + 1,
                  !.raised = Fails(st2, env)]

\* main, a script run in which the delete button of the document at idx was
\* pressed: the upload part, the removal, and the run that st.rerun() starts
delete_run(st, env, files, idx) ==
  LET st1 == ingest(st, env, files)
      st2 == IF env.v = "light" THEN remove_pdf(st1, env, idx)
             ELSE delete_pdf_by_id(st1, env, st1.lib[idx].id)
  IN  IF st1.raised THEN st1
      ELSE IF st2.raised THEN st2
      ELSE ingest(st2, env, files)

NoPdfOp == [op |-> "none", log |-> << >>, raised |-> FALSE]

EmptyDir == [q \in {} |-> "pdfA"]

PdfIdle ==
  /\ pdf_library = << >> /\ pdf_disk = MissingFile /\ pdf_dir = EmptyDir
  /\ uploaded = << >> /\ pdfOp = NoPdfOp /\ has_reader = TRUE

NoOp == [op |-> "none", added |-> 0, rejected |-> 0, write |-> "none",
         raised |-> FALSE, signal |-> {}, args |-> {}]

LibIdle == library = << >> /\ disk = MissingFile /\ lastOp = NoOp /\ faults = 0

-----------------------------------------------------------------------------
(* The library run: one session of one front-end over its library file.    *)

MaxLib == 3
MaxBatch == 2

\* what a search hands to the add operation, before any summary
RawHits ==
  { Paper("d1", "T1", {}, {}, {}),
    Paper("d1", "T2", {2020}, {Abstract1}, {}),
    Paper("",   "T1", {}, {}, {}),
    Paper("",   "T2", {}, {Abstract1}, {}) }

\* search_crossref of light and modern set the summary of a hit that has an
\* abstract; cli and basic fill it when the results are displayed
search_result(v, hit) ==
  IF hit.abstract \in {{}, {Str0}} THEN hit
  ELSE [hit EXCEPT !.summary =
          { summarise_text(v, a, IF v = "light" THEN LightSearchSentences
                                                 ELSE SUMMARY_SENTENCES) :
            a \in hit.abstract }]

SearchResultsOf == [v \in Variants |-> { search_result(v, h) : h \in RawHits }]

\* the library file a session can find: none, or one written elsewhere
\* that holds a paper with an abstract and no summary yet
StoredFiles(v) ==
  { MissingFile,
    ListFile(<< asdict(v, Paper("d1", "T2", {2020}, {Abstract1}, {})) >>) }

\* main: load_library() into the session, and for basic the first render
session_start(v, file, io) ==
  LET l == load_library(v, file)
      r == Done(l.lib, file, "start", 0, 0, "none", l.raised, {})
  IN  IF v = "basic" THEN render_library_basic(r, io) ELSE r

SummIdle == in_text = << >> /\ in_sentences = 0 /\ out = {}

\* No normaliser run: no item, no result.
\* No extraction run: no document, no result.
ExtractIdle == pdf_doc = << >> /\ extracted = {}

NormIdle ==
  raw_item = << >> /\ norm_out = {} /\ response = << >> /\ search_out = {}

MaxFaults == 1

InitLib ==
  /\ variant \in Variants
  /\ \E f \in StoredFiles(variant), io \in IOOutcomes :
       LET r == session_start(variant, f, io)
       IN  /\ library = r.lib /\ disk = r.disk /\ lastOp = r.op
           /\ faults = r.fails
  /\ SummIdle
  /\ NormIdle
  /\ ExtractIdle
  /\ PdfIdle

\* a step of the library run; r.fails counts the writes of the step that failed
Apply(r) ==
  /\ faults + r.fails <= MaxFaults
  /\ library' = r.lib
  /\ disk' = r.disk
  /\ lastOp' = r.op
  /\ faults' = faults + r.fails
  /\ UNCHANGED << variant, normVars, extractVars, summVars, pdfVars >>

\* the user adds one search result (light, modern, basic)
AddPaper ==
  /\ variant \in {"light", "modern", "basic"}
  /\ Len(library) < MaxLib
  /\ \E p \in SearchResultsOf[variant], io \in IOOutcomes, io2 \in IOOutcomes :
       Apply(WithArgs(
               CASE variant = "light"  -> upsert_paper(library, disk, p, io)
                 [] variant = "modern" -> add_paper_to_library(library, disk, p, io)
                 [] OTHER -> render_library_basic(
                               add_to_library(library, disk, p, io), io2), {p}))

\* cli: the user saves a choice of search results
SearchAndSave ==
  /\ variant = "cli"
  /\ \E batch \in SeqsUpTo(SearchResultsOf["cli"], MaxBatch) \ {<< >>},
        io \in IOOutcomes :
       /\ Len(library) + Len(batch) <= MaxLib
       /\ Apply(WithArgs(search_and_save(library, disk, batch, io),
                         { batch[i] : i \in 1..Len(batch) }))

\* light, modern: the user removes the paper at idx, and the page reruns
RemovePaper ==
  /\ variant \in {"light", "modern"}
  /\ \E idx \in 1..(Len(library) + 1), io \in IOOutcomes, io2 \in IOOutcomes,
        kept \in BOOLEAN :
       Apply(WithArgs(rerun_after_remove(variant,
               remove_paper(variant, library, disk, idx, io), idx,
               IF idx <= Len(library) THEN library[idx].read ELSE FALSE,
               kept, io2),
             IF idx <= Len(library) THEN {library[idx]} ELSE {}))

\* the user sets or toggles the read flag
SetRead ==
  \E io \in IOOutcomes, io2 \in IOOutcomes :
    \/ /\ variant = "light"
       /\ \E idx \in 1..(Len(library) + 1), value \in BOOLEAN :
            Apply(WithArgs(toggle_read_light(library, disk, idx, value, io),
                           IF idx <= Len(library) THEN {library[idx]} ELSE {}))
    \/ /\ variant = "modern"
       /\ \E idx \in 1..Len(library) :
            Apply(WithArgs(sync_read_status(library, disk, idx,
                                            ~ library[idx].read, io),
                           {library[idx]}))
    \/ /\ variant = "basic"
       /\ \E idx \in 1..(Len(library) + 1) :
            Apply(WithArgs(render_library_basic(
                             toggle_read_basic(library, disk, idx, io), io2),
                           IF idx <= Len(library) THEN {library[idx]} ELSE {}))
    \/ /\ variant = "cli"
       /\ \E indices \in SeqsUpTo(1..Len(library), MaxBatch) :
            Apply(WithArgs(mark_read_status(library, disk, indices, io),
                           { library[indices[i]] : i \in 1..Len(indices) }))

\* cli: the user looks at the details of a paper of the library
ListLibrary ==
  /\ variant = "cli"
  /\ \E idx \in 1..Len(library) : Apply(display_paper(library, disk, idx))

\* the program is started again on the file the last session left
Restart ==
  /\ lastOp.op # "start"
  /\ \E io \in IOOutcomes : Apply(session_start(variant, disk, io))

NextLib == AddPaper \/ SearchAndSave \/ RemovePaper \/ SetRead \/ ListLibrary
           \/ Restart

SpecLib == InitLib /\ [][NextLib]_vars

-----------------------------------------------------------------------------
(* The summariser run: one call of summarise_text on a text of the pool.   *)

MaxSents == 4
MaxK == 3

\* "aaa."  "aab."  "b."
SentencePool == { <<"a", "a", "a", ".">>, <<"a", "a", "b", ".">>, <<"b", ".">> }

\* texts with other white space: none, white space only, two spaces
\* between sentences, white space around the text
OddTexts ==
  { << >>, << " " >>, << " ", "\n" >>,
    << "a", "a", "a", ".", " ", " ", "a", "a", "b", "." >>,
    << " ", "a", "a", "a", ".", " ", "b", ".", " " >>,
    << "a", "a", "a", ".", "\n", "a", "a", "b", ".", " ", "b", "." >> }

Texts == { JoinWith(ss, << " " >>) : ss \in SeqsUpTo(SentencePool, MaxSents) }
         \cup OddTexts

InitSumm ==
  /\ variant \in Variants
  /\ in_text \in Texts
  /\ in_sentences \in (0 - 1)..MaxK
  /\ out = {}
  /\ LibIdle
  /\ NormIdle
  /\ ExtractIdle
  /\ PdfIdle

Summarise ==
  /\ out = {}
  /\ out' = { summarise_text(variant, in_text, in_sentences) }
  /\ UNCHANGED << variant, normVars, extractVars, in_text, in_sentences, libVars, faults, pdfVars >>

NextSumm == Summarise

SpecSumm == InitSumm /\ [][NextSumm]_vars

-----------------------------------------------------------------------------
(* The PDF run: one session of light or modern over its index file and its *)
(* storage directory.  The upload widget keeps its files from one script   *)
(* run to the next until the user changes them.                            *)

MaxPdf == 2
MaxUpload == 2

\* the files of the user: the same bytes under two names, bytes without
\* text, and bytes that cannot be read, whose path is that of the first
Files ==
  { [name |-> << "a" >>, content |-> "pdfA"],
    [name |-> << " ", "b", ":", "*" >>, content |-> "pdfA"],
    [name |-> << "a" >>, content |-> "pdfB"],
    [name |-> << "a" >>, content |-> "pdfC"] }

\* st.file_uploader: accept_multiple_files=True (light), False (modern)
Selections(v) ==
  IF v = "light" THEN SeqsUpTo(Files, MaxUpload) \ {<< >>}
  ELSE { << f >> : f \in Files }

\* the ways the input/output calls of a run of at most maxn calls can go:
\* env.F holds the numbers of the calls that fail
Envs(maxn) ==
  { [v |-> variant, reader |-> has_reader, F |-> {}, mode |-> "fail_open"] }
  \cup
  { [v |-> variant, reader |-> has_reader, F |-> F, mode |-> m] :
      F \in {G \in SUBSET (1..maxn) : G # {} /\ Cardinality(G) + faults <= MaxFaults},
      m \in {"fail_open", "fail_partial"} }

RunStart ==
  [lib |-> pdf_library, disk |-> pdf_disk, dir |-> pdf_dir, n |-> 0,
   raised |-> FALSE, log |-> << >>]

\* a step of the PDF run; every call env.F names was made
ApplyPdf(st, env, op, files) ==
  /\ env.F \subseteq 1..st.n
  /\ Len(st.lib) <= MaxPdf
  /\ pdf_library' = st.lib
  /\ pdf_disk' = st.disk
  /\ pdf_dir' = st.dir
  /\ uploaded' = files
  /\ pdfOp' = [op |-> op, log |-> st.log, raised |-> st.raised]
  /\ faults' = faults + Cardinality(env.F)
  /\ UNCHANGED << variant, normVars, extractVars, summVars, libVars, has_reader >>

InitPdf ==
  /\ variant \in {"light", "modern"}
  /\ has_reader \in BOOLEAN
  /\ pdf_library = << >> /\ pdf_disk = MissingFile /\ pdf_dir = EmptyDir
  /\ uploaded = << >> /\ pdfOp = NoPdfOp
  /\ SummIdle
  /\ NormIdle
  /\ ExtractIdle
  /\ LibIdle

\* the user puts files into the upload widget, and the script runs
Upload ==
  \E files \in Selections(variant) :
    \E env \in Envs(2 * Len(files)) :
    ApplyPdf(ingest(RunStart, env, files), env, "upload", files)

\* the script runs again (any other interaction) with the widget as it is
Rerun ==
  /\ uploaded # << >>
  /\ \E env \in Envs(2 * Len(uploaded)) :
       ApplyPdf(ingest(RunStart, env, uploaded), env, "rerun", uploaded)

\* the user empties the upload widget, and the script runs
ClearUploader ==
  /\ uploaded # << >>
  /\ \E env \in Envs(0) : ApplyPdf(RunStart, env, "clear", << >>)

\* the user presses the delete button of the document at idx
RemovePdf ==
  \E idx \in 1..Len(pdf_library), env \in Envs(4 * Len(uploaded) + 2) :
    ApplyPdf(delete_run(RunStart, env, uploaded, idx), env, "remove", uploaded)

\* the program is started again on the index file and the directory the
\* last session left
RestartPdf ==
  /\ pdfOp.op # "start"
  /\ pdf_disk.kind # "scalar"
  /\ pdf_library' = load_pdf_library(variant, pdf_disk).lib
  /\ uploaded' = << >>
  /\ pdfOp' = [op |-> "start", log |-> << >>, raised |-> FALSE]
  /\ UNCHANGED << variant, normVars, extractVars, summVars, libVars, faults, pdf_disk, pdf_dir, has_reader >>

NextPdf == Upload \/ Rerun \/ ClearUploader \/ RemovePdf \/ RestartPdf

SpecPdf == InitPdf /\ [][NextPdf]_vars

-----------------------------------------------------------------------------
(* The store run: saves and loads of one store, the library file of any    *)
(* front-end or the PDF index of light and modern, from a list in memory   *)
(* and a file that an earlier session, or something else, left behind.     *)

MaxMem == 2
MaxStored == 3

\* well-formed Papers: the read flag set and the optional fields unset, and
\* the other way round
SamplePapers(v) ==
  LET at == IF v = "light" THEN Now ELSE ""
  IN  { [Paper("d1", "T1", {}, {}, {}) EXCEPT !.read = TRUE, !.added_at = at],
        [Paper("", "T2", {2020}, {Abstract1}, {Abstract1}) EXCEPT !.added_at = at] }

SamplePdfs(v) ==
  IF v = "light"
  THEN { PDFDoc_light("p1", << "a" >>, << "p1", << "a" >> >>, << "p1", "x" >>, {1},
                      Abstract1),
         PDFDoc_light("p2", << "a" >>, << "p2", << "a" >> >>, << "p2", "x" >>, {},
                      << "MSG_NO_TEXT" >>) }
  ELSE { PDFDoc_modern(<< "p1", "x" >>, << "a" >>, << "p1", << "a" >> >>, Abstract1),
         PDFDoc_modern(<< "p2", "x" >>, << "a" >>, << "p2", << "a" >> >>,
                       << "MSG_NO_TEXT" >>) }

StoreOp(op, write, raised, over, prev) ==
  [op |-> op, write |-> write, raised |-> raised, over |-> over, prev |-> prev]

\* the length of the list a file holds
StoredLen(file) == IF file.kind = "list" THEN Len(file.items) ELSE 0

\* a load that comes right after a save that succeeded is marked "saved"
PrevOf(o) == IF o.op = "save" /\ o.write = "ok" THEN "saved" ELSE o.op

\* what a library file can hold beside the samples: something that is no
\* JSON object, an object without a title, an object with a key the
\* dataclass does not have, and an object written before the read flag
\* existed
SampleItems(v) ==
  LET NoObject == [obj |-> FALSE, keys |-> {}, p |-> << >>]
      Without(item, k) ==
        [item EXCEPT !.keys = @ \ {k},
                     !.p = [j \in DOMAIN item.p \ {k} |-> item.p[j]]]
      WithExtra(item) ==
        [item EXCEPT !.keys = @ \cup {"extra"},
                     !.p = [j \in DOMAIN item.p \cup {"extra"} |->
                              IF j = "extra" THEN "" ELSE item.p[j]]]
  IN  { asdict(v, q) : q \in SamplePapers(v) }
      \cup { NoObject,
             Without(asdict(v, Paper("d2", "T3", {}, {}, {})), "title"),
             WithExtra(asdict(v, Paper("d2", "T3", {}, {}, {}))),
             Without(asdict(v, Paper("d3", "T3", {}, {}, {})), "read") }

\* what a PDF index can hold beside the samples: something that is no JSON
\* object, and the documents of the other front-end, whose fields differ
SamplePdfItems(v) ==
  { asdict_pdf(d) : d \in SamplePdfs(v) }
  \cup { [obj |-> FALSE, keys |-> {}, p |-> << >>] }
  \cup { asdict_pdf(d) : d \in SamplePdfs(IF v = "light" THEN "modern" ELSE "light") }

InitLoad ==
  /\ variant \in Variants
  /\ \/ /\ library \in SeqsUpTo(SamplePapers(variant), MaxMem)
        /\ disk \in { MissingFile, GarbageFile, ScalarFile }
                    \cup { ListFile(items) :
                             items \in SeqsUpTo(SampleItems(variant), MaxStored) }
        /\ lastOp = StoreOp("start", "none", FALSE, 0, "none")
        /\ pdf_library = << >> /\ pdf_disk = MissingFile /\ pdfOp = NoPdfOp
     \/ /\ variant \in {"light", "modern"}
        /\ pdf_library \in SeqsUpTo(SamplePdfs(variant), MaxMem)
        /\ pdf_disk \in { MissingFile, GarbageFile }
                        \cup { ListFile(items) :
                                 items \in SeqsUpTo(SamplePdfItems(variant), MaxStored) }
        /\ pdfOp = StoreOp("start", "none", FALSE, 0, "none")
        /\ library = << >> /\ disk = MissingFile /\ lastOp = NoOp
  /\ faults = 0
  /\ pdf_dir = EmptyDir /\ uploaded = << >> /\ has_reader = TRUE
  /\ SummIdle
  /\ NormIdle
  /\ ExtractIdle

\* save_library(library)
SaveLibrary ==
  /\ lastOp.op # "none"
  /\ \E io \in IOOutcomes :
       /\ faults + (IF io = "ok" THEN 0 ELSE 1) <= MaxFaults
       /\ disk' = save_library(variant, disk, library, io)
       /\ lastOp' = StoreOp("save", WriteResult(io), SaveRaises(variant, io),
                            StoredLen(disk), PrevOf(lastOp))
       /\ faults' = faults + (IF io = "ok" THEN 0 ELSE 1)
  /\ UNCHANGED << variant, normVars, extractVars, summVars, library, pdfVars >>

\* library = load_library()
LoadLibrary ==
  /\ lastOp.op # "none"
  /\ library' = load_library(variant, disk).lib
  /\ lastOp' = StoreOp("load", "none", load_library(variant, disk).raised,
                       lastOp.over, PrevOf(lastOp))
  /\ UNCHANGED << variant, normVars, extractVars, summVars, disk, faults, pdfVars >>

\* the list in memory changes and is not saved
EditLibrary ==
  /\ lastOp.op # "none"
  /\ library' \in SeqsUpTo(SamplePapers(variant), MaxMem) \ {library}
  /\ lastOp' = StoreOp("edit", "none", FALSE, 0, PrevOf(lastOp))
  /\ UNCHANGED << variant, normVars, extractVars, summVars, disk, faults, pdfVars >>

\* save_pdf_library(pdf_library): light and modern let a failure propagate
SavePdfLibrary ==
  /\ pdfOp.op # "none"
  /\ \E io \in IOOutcomes :
       /\ faults + (IF io = "ok" THEN 0 ELSE 1) <= MaxFaults
       /\ pdf_disk' = save_pdf_library(pdf_disk, pdf_library, io)
       /\ pdfOp' = StoreOp("save", WriteResult(io), io # "ok",
                           StoredLen(pdf_disk), PrevOf(pdfOp))
       /\ faults' = faults + (IF io = "ok" THEN 0 ELSE 1)
  /\ UNCHANGED << variant, normVars, extractVars, summVars, libVars, pdf_library, pdf_dir, uploaded,
                  has_reader >>

\* pdf_library = load_pdf_library()
LoadPdfLibrary ==
  /\ pdfOp.op # "none"
  /\ pdf_library' = load_pdf_library(variant, pdf_disk).lib
  /\ pdfOp' = StoreOp("load", "none", load_pdf_library(variant, pdf_disk).raised,
                      pdfOp.over, PrevOf(pdfOp))
  /\ UNCHANGED << variant, normVars, extractVars, summVars, libVars, faults, pdf_disk, pdf_dir, uploaded,
                  has_reader >>

\* the list of documents in memory changes and is not saved
EditPdfLibrary ==
  /\ pdfOp.op # "none"
  /\ pdf_library' \in SeqsUpTo(SamplePdfs(variant), MaxMem) \ {pdf_library}
  /\ pdfOp' = StoreOp("edit", "none", FALSE, 0, PrevOf(pdfOp))
  /\ UNCHANGED << variant, normVars, extractVars, summVars, libVars, faults, pdf_disk, pdf_dir, uploaded,
                  has_reader >>

NextLoad == SaveLibrary \/ LoadLibrary \/ EditLibrary
            \/ SavePdfLibrary \/ LoadPdfLibrary \/ EditPdfLibrary

SpecLoad == InitLoad /\ [][NextLoad]_vars

-----------------------------------------------------------------------------
(* The normaliser: Paper.from_crossref of cli, basic and modern and the    *)
(* loop body of search_crossref of light.  An item of a Crossref answer is *)
(* a record of its keys; a key that is absent holds {}, a date source that *)
(* is present holds its "date-parts" array, whose elements are arrays of   *)
(* Optional numbers ({} is JSON null).                                     *)

\* re.sub(r"<[^>]+>", "", s): a tag starts at a "<" that is followed by at
\* least one character other than ">" and ends at the next ">"
RECURSIVE remove_tags(_)
remove_tags(s) ==
  IF s = << >> THEN << >>
  ELSE LET close == { j \in 2..Len(s) : s[j] = ">" }
           first == CHOOSE j \in close : \A k \in close : j <= k
       IN  IF Head(s) = "<" /\ close # {} /\ first >= 3
           THEN remove_tags(SubSeq(s, first + 1, Len(s)))
           ELSE << Head(s) >> \o remove_tags(Tail(s))

\* re.sub(r"&[a-z]+;", repl, s), or with [a-zA-Z] when upper: an entity is
\* "&", the longest run of letters after it, which is not empty, and a ";"
RECURSIVE remove_entities(_, _, _)
remove_entities(s, upper, repl) ==
  IF s = << >> THEN << >>
  ELSE LET letter(c) == IsAsciiLetter(c) /\ (upper \/ LowerChar(c) = c)
           n == CHOOSE n \in 0..(Len(s) - 1) :
                  /\ \A k \in 2..(n + 1) : letter(s[k])
                  /\ (n + 2 > Len(s) \/ ~letter(s[n + 2]))
       IN  IF Head(s) = "&" /\ n >= 1 /\ n + 2 <= Len(s) /\ s[n + 2] = ";"
           THEN repl \o remove_entities(SubSeq(s, n + 3, Len(s)), upper, repl)
           ELSE << Head(s) >> \o remove_entities(Tail(s), upper, repl)

\* strip_html of light; the three statements of from_crossref that clean the
\* abstract in the other front-ends
sanitize(v, s) ==
  IF v = "light"
  THEN Strip(CollapseSpaces(remove_entities(remove_tags(s), TRUE, << " " >>)))
  ELSE Strip(remove_entities(remove_tags(s), FALSE, << >>))

\* the loop over ("published-print", "published-online", "created"):
\* srcs holds item.get(key) of the three keys in this order
RECURSIVE year_of(_, _)
year_of(v, srcs) ==
  IF srcs = << >> THEN {}
  ELSE IF Head(srcs) = {} THEN year_of(v, Tail(srcs))
  ELSE LET parts == CHOOSE p \in Head(srcs) : TRUE
       IN  IF parts = << >> \/ parts[1] = << >>
           THEN year_of(v, Tail(srcs))   \* IndexError, or `parts and parts[0]`
           ELSE IF parts[1][1] # {} THEN parts[1][1]
           ELSE IF v \in {"cli", "basic"}
                THEN {}                  \* year = None, and break
                ELSE year_of(v, Tail(srcs))  \* `if year:`, or int(None) raises

\* the authors of an item: the names of its entries that have one, joined
\* with ", " (authors_list and the line after the loop)
authors_of_KeepMissing(entries) ==
  LET Part(x) == IF x = {} THEN Str0 ELSE Strip(CHOOSE s \in x : TRUE)
      authors_list == [i \in 1..Len(entries) |->
                         Part(entries[i].given) \o << " " >>
                           \o Part(entries[i].family)]
  IN  IF authors_list = << >> THEN << "Unknown" >>
      ELSE JoinWith(authors_list, << ",", " " >>)

authors_of(entries) ==
  LET NonEmpty(s) == s # Str0
      Part(x) == IF x = {} THEN Str0 ELSE Strip(CHOOSE s \in x : TRUE)
      Name(a) == JoinWith(SelectSeq(<< Part(a.given), Part(a.family) >>,
                                    NonEmpty), << " " >>)
      authors_list == SelectSeq([i \in 1..Len(entries) |-> Name(entries[i])],
                                NonEmpty)
  IN  IF authors_list = << >> THEN << "Unknown" >>
      ELSE JoinWith(authors_list, << ",", " " >>)

\* from_crossref(item); for light the statements of search_crossref that make
\* the Paper, without its summary
from_crossref(v, item) ==
  LET plain == v \in {"cli", "basic"}
      Joined(parts) == JoinWith(parts, << ";", " " >>)
      OrElse(s, dflt) == IF Strip(s) = Str0 THEN dflt ELSE Strip(s)
      cleaned == { sanitize(v, a) : a \in item.abstract \ {Str0} }
  IN  [doi      |-> IF item.DOI = {} THEN "" ELSE CHOOSE d \in item.DOI : TRUE,
       title    |-> IF plain THEN Joined(item.title)
                    ELSE OrElse(Joined(item.title), << "(no title)" >>),
       authors  |-> authors_of(item.author),
       journal  |-> IF plain THEN Joined(item.container)
                    ELSE OrElse(Joined(item.container), Str0),
       year     |-> year_of(v, << item.print, item.online, item.created >>),
       abstract |-> IF v = "modern" THEN cleaned \ {Str0} ELSE cleaned,
       summary  |-> {},
       read     |-> FALSE,
       added_at |-> ""]

\* JSON null where the answer should hold a title string
JsonNull == << "null" >>

\* "; ".join(item.get("title", [])) raises TypeError when the list holds
\* something that is no string
from_crossref_raises(item) ==
  \E i \in 1..Len(item.title) : item.title[i] = JsonNull

\* search_crossref, from the items of the answer on.  cli, basic and modern
\* normalise inside one try block whose handler reports the failure and
\* returns []; light has no handler, and the exception leaves the function.
search_crossref(v, items) ==
  IF \E i \in 1..Len(items) : from_crossref_raises(items[i])
  THEN [papers |-> << >>, raised |-> v = "light",
        signal |-> IF v = "light" THEN {} ELSE {"search_failed"}]
  ELSE [papers |-> [i \in 1..Len(items) |->
                      IF v \in {"light", "modern"}
                      THEN search_result(v, from_crossref(v, items[i]))
                      ELSE from_crossref(v, items[i])],
        raised |-> FALSE, signal |-> {}]

-----------------------------------------------------------------------------
(* The normaliser run: one item of a bounded pool is made a search result. *)

MaxAbstract == 4
MaxNested == 7
MaxAuthors == 2

BaseItem ==
  [DOI |-> {"d1"}, title |-> << << "D" >> >>, author |-> << >>,
   container |-> << >>, print |-> {}, online |-> {}, created |-> {},
   abstract |-> {}]

\* a date source: absent, or the date-parts [], [[]], [[null]], [[y]], [[y, 5]]
DateSources(y) ==
  { {} } \cup { {p} : p \in { << >>, << << >> >>, << << {} >> >>,
                             << << {y} >> >>, << << {y}, {5} >> >> } }

TitleLists ==
  { << >>, << << "D" >> >>, << << "D" >>, << "L" >> >>,
    << << " ", "D" >> >>, << << " " >> >> }

AuthorEntries ==
  [given  : { {}, {Str0}, {<< "G" >>}, {<< " ", "G" >>} },
   family : { {}, {<< "F" >>}, {<< " " >>} }]

RawAbstracts ==
  SeqsUpTo({"<", ">", "&", ";", "a", "A", " "}, MaxAbstract)
    \cup SeqsUpTo({"&", ";", "a"}, MaxNested)
    \cup SeqsUpTo({"<", ">", "a"}, MaxNested)
    \cup SeqsUpTo({"&", "#", "1", ";"}, MaxAbstract)

RawItems ==
  { [BaseItem EXCEPT !.print = p, !.online = o, !.created = c] :
      p \in DateSources(2019), o \in DateSources(2020), c \in DateSources(2021) }
    \cup { [BaseItem EXCEPT !.title = t, !.container = t] : t \in TitleLists }
    \cup { [BaseItem EXCEPT !.author = a] :
             a \in SeqsUpTo(AuthorEntries, MaxAuthors) }
    \cup { [BaseItem EXCEPT !.abstract = {a}] : a \in RawAbstracts }
    \cup { [BaseItem EXCEPT !.DOI = {}] }

MaxHits == 3

\* the items of an answer: two that normalise and one that does not
HitPool ==
  { BaseItem,
    [BaseItem EXCEPT !.DOI = {"d2"}, !.title = << << "L" >> >>,
                     !.abstract = {Abstract1}],
    [BaseItem EXCEPT !.DOI = {"d3"}, !.title = << JsonNull >>] }

InitNorm ==
  /\ variant \in Variants
  /\ \/ raw_item \in RawItems /\ response = << >>
     \/ raw_item = BaseItem /\ response \in SeqsUpTo(HitPool, MaxHits) \ {<< >>}
  /\ norm_out = {}
  /\ search_out = {}
  /\ ExtractIdle
  /\ faults = 0
  /\ SummIdle
  /\ LibIdle
  /\ PdfIdle

\* search_crossref on an answer that holds the item: light and modern set
\* the summary of a result that has an abstract
Normalise ==
  /\ norm_out = {}
  /\ norm_out' = { IF variant \in {"light", "modern"}
                THEN search_result(variant, from_crossref(variant, raw_item))
                ELSE from_crossref(variant, raw_item) }
  /\ UNCHANGED << variant, extractVars, raw_item, response, search_out, summVars, libVars,
                  faults, pdfVars >>

\* search_crossref on an answer that holds the items of response
Search ==
  /\ search_out = {}
  /\ response # << >>
  /\ search_out' = { search_crossref(variant, response) }
  /\ UNCHANGED << variant, extractVars, raw_item, norm_out, response, summVars, libVars,
                  faults, pdfVars >>

NextNorm == Normalise \/ Search

SpecNorm == InitNorm /\ [][NextNorm]_vars

-----------------------------------------------------------------------------
(* The extraction run: the text of one document of a bounded pool is       *)
(* extracted and summarised, by light (extract_text_from_pdf_bytes,        *)
(* summarise_pdf_bytes) or by modern (summarise_pdf_file).                 *)

MaxDocPages == 3
MaxLongDoc == 13

\* what a page can give: text, no text, an exception
PagePool == { PageText(<< "a", "a", "a", "." >>), PageText(<< "a", "a", "b", "." >>),
              PageText(Str0), PageRaises }

\* a document of n pages of text, the pages after the tenth unlike the others
LongDoc(n) ==
  [i \in 1..n |-> PageText(IF i <= MaxPagesLight THEN << "a", "a", "a", "." >>
                           ELSE << "a", "a", "b", "." >>)]

Docs ==
  { [readable |-> TRUE, pages |-> ps] : ps \in SeqsUpTo(PagePool, MaxDocPages) }
    \cup { [readable |-> TRUE, pages |-> LongDoc(n)] :
             n \in MaxPagesLight..MaxLongDoc }
    \cup { [readable |-> TRUE, pages |-> [LongDoc(n) EXCEPT ![n] = PageRaises]] :
             n \in MaxPagesLight..MaxLongDoc }
    \cup { [readable |-> FALSE, pages |-> << >>] }

InitExtract ==
  /\ variant \in {"light", "modern"}
  /\ has_reader \in BOOLEAN
  /\ pdf_doc \in Docs
  /\ extracted = {}
  /\ pdf_library = << >> /\ pdf_disk = MissingFile /\ pdf_dir = EmptyDir
  /\ uploaded = << >> /\ pdfOp = NoPdfOp
  /\ SummIdle
  /\ NormIdle
  /\ LibIdle

\* light: summarise_pdf_bytes(pdf_bytes), which extracts the text;
\* modern: summarise_pdf_file(path)
Extract ==
  /\ extracted = {}
  /\ extracted' =
       { IF variant = "light"
         THEN [e |-> { extract_text_from_pdf_bytes(has_reader, pdf_doc, MaxPagesLight) },
               summary |-> summarise_pdf_bytes(has_reader, pdf_doc).summary]
         ELSE [e |-> {}, summary |-> summarise_pdf_file(has_reader, pdf_doc)] }
  /\ UNCHANGED << variant, pdf_doc, normVars, summVars, libVars, faults, pdfVars >>

NextExtract == Extract

SpecExtract == InitExtract /\ [][NextExtract]_vars

-----------------------------------------------------------------------------
(* Properties of the library run.                                          *)

\* json.dump of the list as it is in memory
Serialised(v, lib) == ListFile([i \in 1..Len(lib) |-> asdict(v, lib[i])])

\* C1: no two Papers of the library share a non-empty identifier, after any
\* sequence of add, remove and setRead; adding two Papers with the same
\* non-empty identifier leaves exactly one stored record.
C1_NoSharedIdentifier ==
  \A i, j \in 1..Len(library) :
    (i # j /\ library[i].doi # "") => library[i].doi # library[j].doi

\* an add of a Paper whose non-empty identifier is stored was refused, and
\* the identifier is stored once
C1_Witness ==
  /\ lastOp.op = "add" /\ lastOp.rejected = 1 /\ lastOp.added = 0
  /\ \E a \in lastOp.args :
       a.doi # "" /\ Cardinality({i \in 1..Len(library) : library[i].doi = a.doi}) = 1

\* a step that is the add of exactly one Paper, which has no identifier
AddOfIdentifierLess(a) ==
  /\ lastOp'.op = "add" /\ lastOp'.args = {a} /\ a.doi = ""
  /\ lastOp'.added + lastOp'.rejected = 1

\* C2: the add of a Paper with an empty identifier is rejected if and only
\* if the library holds a Paper with an empty identifier and exactly the
\* same title.
C2_TitleDedupOnlyAmongIdentifierLess ==
  [][\A a \in lastOp'.args :
       AddOfIdentifierLess(a) =>
         (lastOp'.rejected = 1 <=>
            \E i \in 1..Len(library) :
              library[i].doi = "" /\ library[i].title = a.title)]_vars

\* C3: an add that is rejected as already existing leaves the list in
\* memory and the library file exactly as they were, and says so with a
\* signal that is neither the one of success nor the one of a failure.
C3_RejectedAddChangesNothing ==
  [][(lastOp'.op = "add" /\ lastOp'.added = 0 /\ lastOp'.rejected > 0) =>
       /\ library' = library
       /\ disk' = disk
       /\ "exists" \in lastOp'.signal
       /\ lastOp'.signal \cap {"added", "exception", "save_error"} = {}
       /\ ~ lastOp'.raised /\ lastOp'.write = "none"]_vars

\* a rejected add, at a moment the file is behind the list in memory (an
\* earlier write failed): the file was not written again
C3_Witness ==
  /\ lastOp.op = "add" /\ lastOp.added = 0 /\ lastOp.rejected > 0
  /\ Len(library) >= 1
  /\ disk # Serialised(variant, library)

\* C4: after an add, remove or setRead that changed the list and whose
\* write did not fail, the library file holds exactly the list in memory.
C4_MutationIsFlushed ==
  [][(lastOp'.op \in {"add", "remove", "setRead"} /\ library' # library
      /\ lastOp'.write # "failed")
       => disk' = Serialised(variant, library')]_vars

\* a setRead brought the file, left behind by a failed write, back to the
\* list in memory
C4_Witness ==
  /\ lastOp.op = "setRead" /\ lastOp.write = "ok"
  /\ faults = 1 /\ Len(library) >= 2
  /\ disk = Serialised(variant, library)

\* C19: a record changes only through its own setRead and its lazy summary.
\* A removal leaves the list as it was but for the paper removed, so the
\* paper that takes over the position keeps its read flag; a setRead leaves
\* every record as it was but for its read flag and a summary filled in, and
\* in light and modern it touches one record at most.
C19_OtherRecordsUnchanged ==
  [][/\ lastOp'.op = "remove" =>
          \/ library' = library
          \/ \E idx \in 1..Len(library) : library' = RemoveAt(library, idx)
     /\ lastOp'.op = "setRead" =>
          /\ Len(library') = Len(library)
          /\ \A j \in 1..Len(library) :
               /\ library'[j] = [library[j] EXCEPT !.read = library'[j].read,
                                                   !.summary = library'[j].summary]
               /\ library'[j].summary \in
                    {library[j].summary, fill_summary(library[j]).summary}
          /\ variant \in {"light", "modern"} =>
               Cardinality({j \in 1..Len(library) :
                              library'[j] # library[j]}) <= 1]_vars

-----------------------------------------------------------------------------
(* Properties of the PDF run.                                              *)

NoSharedContentHash ==
  \A i, j \in 1..Len(pdf_library) :
    i # j => HashOf(pdf_library[i]) # HashOf(pdf_library[j])

\* the files of the storage directory that hold the bytes b
FilesHolding(b) == {q \in DOMAIN pdf_dir : pdf_dir[q] = b}

Duplicates(op) == {i \in 1..Len(op.log) : op.log[i].dup}

\* the documents of a list that have the hash sha
StoredAs(lib, sha) == {j \in 1..Len(lib) : HashOf(lib[j]) = sha}

\* what C6 says of a run of uploads but for the value returned: a run of
\* duplicates only leaves the list, the index and the directory as they
\* were; no run of uploads changes a document that was stored; a
\* duplicate is stored once
DuplicateUploadFrame ==
  /\ (pdfOp'.log # << >> /\ Duplicates(pdfOp') = DOMAIN pdfOp'.log)
       => /\ pdf_library' = pdf_library
          /\ pdf_disk' = pdf_disk
          /\ pdf_dir' = pdf_dir
  /\ \A j \in 1..Len(pdf_library) :
       j <= Len(pdf_library') /\ pdf_library'[j] = pdf_library[j]
  /\ \A i \in Duplicates(pdfOp') :
       Cardinality(StoredAs(pdf_library', pdfOp'.log[i].sha)) = 1

\* C6, as stated: addDocument with bytes whose hash is in the library
\* returns the existing PDFDocument and leaves the list in memory, the
\* persisted index and the storage directory unchanged; the same bytes
\* uploaded under another filename give one PDFDocument, with the filename
\* of the first upload.
C6_ReturnsExistingUnchanged ==
  [][pdfOp'.op \in {"upload", "rerun"} =>
       /\ DuplicateUploadFrame
       /\ \A i \in Duplicates(pdfOp') :
            pdfOp'.log[i].ret =
              { pdf_library'[j] : j \in StoredAs(pdf_library', pdfOp'.log[i].sha) }]_vars

\* C6, amended: as stated, but the existing PDFDocument is returned by
\* light only; add_pdf of modern returns nothing.
C6_DuplicateUploadChangesNothing ==
  [][pdfOp'.op \in {"upload", "rerun"} =>
       /\ DuplicateUploadFrame
       /\ \A i \in Duplicates(pdfOp') :
            pdfOp'.log[i].ret =
              IF variant = "light"
              THEN { pdf_library'[j] : j \in StoredAs(pdf_library', pdfOp'.log[i].sha) }
              ELSE {}]_vars

\* stored bytes were uploaded again under another filename, and the
\* document has the filename of the first upload
C6_Witness ==
  /\ pdfOp.op \in {"upload", "rerun"}
  /\ \E i \in Duplicates(pdfOp) :
       \E j \in StoredAs(pdf_library, pdfOp.log[i].sha) :
         pdf_library[j].filename \notin
           {pdfOp.log[i].name, SanitizedName[pdfOp.log[i].name]}

\* C7: summarisation runs once per content: the hash is computed and looked
\* up before any extraction or summarisation, so an upload of bytes that
\* are stored already summarises nothing.
C7_NoSummaryOfStoredContent ==
  [][\A i \in Duplicates(pdfOp') : ~ pdfOp'.log[i].summarised]_vars

\* C18: removeDocument takes the record of the document off the list in
\* memory and off the persisted index and deletes its backing file; when
\* the deletion fails the record is taken off all the same and the index is
\* written.  A run with the delete button pressed whose index write does not
\* raise leaves the index holding the list, and with nothing in the upload
\* widget the run is the removal alone.
C18_RemoveDocument ==
  [][(pdfOp'.op = "remove" /\ ~ pdfOp'.raised) =>
       /\ pdf_disk' = ListFile([i \in 1..Len(pdf_library') |->
                                  asdict_pdf(pdf_library'[i])])
       /\ uploaded = << >> =>
            \E idx \in 1..Len(pdf_library) :
              /\ pdf_library' = RemoveAt(pdf_library, idx)
              /\ \/ pdf_library[idx].path \notin DOMAIN pdf_dir'
                 \/ faults' > faults /\ pdf_dir' = pdf_dir]_vars

\* one of two documents was removed, and its file with it
C18_Witness ==
  /\ pdfOp.op = "remove" /\ ~ pdfOp.raised /\ uploaded = << >>
  /\ faults = 0
  /\ Len(pdf_library) = 1
  /\ DOMAIN pdf_dir = { pdf_library[1].path }

\* C20, for removeDocument: when the write of the index fails the failure
\* reaches the caller and the list in memory keeps the change.  With nothing
\* in the upload widget a run with the delete button pressed makes no write
\* but that of the index, so a run that an exception left had this write
\* fail; the list in memory is then the list without the document.
C20_FailedWriteKeepsChange ==
  [][(pdfOp'.op = "remove" /\ pdfOp'.raised /\ uploaded = << >>) =>
       \E idx \in 1..Len(pdf_library) :
         pdf_library' = RemoveAt(pdf_library, idx)]_vars

\* C21: after a store method has returned or was cut short by a failure a
\* load sees a self-consistent state: neither the library file nor the PDF
\* index is a truncated or half-written file, and every document that the
\* PDF index lists has its backing file in the storage directory.
C21_StoresSelfConsistent ==
  /\ disk.kind # "garbage"
  /\ pdf_disk.kind # "garbage"
  /\ pdf_disk.kind = "list" =>
       \A i \in 1..Len(pdf_disk.items) :
         pdf_disk.items[i].p.path \in DOMAIN pdf_dir

C25_RemovedStaysAbsent ==
  [][(pdfOp'.op = "remove" /\ ~ pdfOp'.raised) =>
       \E idx \in 1..Len(pdf_library) :
         StoredAs(pdf_library', HashOf(pdf_library[idx])) = {}]_vars

\* C29: setRead and remove called with an index that denotes no stored
\* record leave the list in memory and the library file as they were, and
\* no exception leaves them.
C29_MissingRecordChangesNothing ==
  [][(lastOp'.op \in {"setRead", "remove"} /\ lastOp'.args = {}) =>
       /\ library' = library
       /\ disk' = disk
       /\ ~ lastOp'.raised]_vars

\* C30: the library keeps the order of insertion through every operation:
\* an add that stores something leaves the stored Papers where they were
\* and puts the new ones after them, the removal of the record at a
\* position takes out that record and keeps the others in their order,
\* setRead moves nothing, and the start that loads what the last operation
\* saved gives the same order.
C30_InsertionOrderKept ==
  [][LET n == Len(library)
         m == Len(library')
         Moved(from, by) ==
           \A j \in from..m : Key(library'[j]) = Key(library[j + by])
     IN  /\ (lastOp'.op = "add" /\ lastOp'.added >= 1) =>
              /\ m = n + lastOp'.added
              /\ SubSeq(library', 1, n) = library
              /\ \A j \in (n + 1)..m : Key(library'[j]) \in lastOp'.args
         /\ (lastOp'.op = "remove" /\ lastOp'.args # {}) =>
              \E idx \in 1..n :
                /\ lastOp'.args = { Key(library[idx]) }
                /\ m = n - 1
                /\ \A j \in 1..(idx - 1) : Key(library'[j]) = Key(library[j])
                /\ Moved(idx, 1)
         /\ lastOp'.op = "setRead" => m = n /\ Moved(1, 0)
         /\ (lastOp'.op = "start" /\ lastOp.write = "ok") => m = n /\ Moved(1, 0)]_vars

\* a Paper was added to a library that held two, and stands last
C30_Witness ==
  /\ lastOp.op = "add" /\ lastOp.added = 1 /\ Len(library) = 3
  /\ lastOp.args = { Key(library[3]) }
  /\ Key(library[3]) \notin { Key(library[1]), Key(library[2]) }

-----------------------------------------------------------------------------
(* Properties of the store run.                                            *)

\* C8: for a library L of well-formed records, a save of L and then a load
\* give L again: the same records in the same order with the same values of
\* every field (read flags and unset optional fields too), and nothing of
\* an earlier, longer saved state; the same for the PDF index.
C8_LoadAfterSaveIsIdentity ==
  [][/\ (lastOp.op = "save" /\ lastOp.write = "ok" /\ lastOp'.op = "load")
          => library' = library /\ ~ lastOp'.raised
     /\ (pdfOp.op = "save" /\ pdfOp.write = "ok" /\ pdfOp'.op = "load")
          => pdf_library' = pdf_library /\ ~ pdfOp'.raised]_vars

\* a list of two Papers, one read and without year, abstract and summary,
\* was saved over a file of three items and loaded again
C8_Witness ==
  /\ lastOp.op = "load" /\ lastOp.prev = "saved" /\ lastOp.over = 3
  /\ Len(library) = 2
  /\ \E i \in 1..Len(library) :
       library[i].read /\ library[i].year = {} /\ library[i].summary = {}
  /\ \E i \in 1..Len(library) : ~ library[i].read /\ library[i].year # {}

\* C9: load does not fail its caller: for a missing or unreadable file it
\* gives an empty collection, and for a list with malformed entries it
\* gives exactly the well-formed entries in their stored order.
C9_LoadSkipsOnlyMalformed ==
  (lastOp.op = "load" /\ disk.kind \in {"missing", "garbage", "list"}) =>
    /\ ~ lastOp.raised
    /\ library = IF disk.kind = "list" THEN ConstructWellFormed(variant, disk.items)
                 ELSE << >>

-----------------------------------------------------------------------------
(* Properties of the summariser run.                                       *)

\* the sentences the front-end's summariser works on
SentencesOf(v, t) ==
  CASE v = "light"  -> StripAndDropEmpty(re_split(Strip(CollapseSpaces(t)), WideTerminators))
    [] v = "modern" -> StripAndDropEmpty(re_split(Strip(t), WideTerminators))
    [] OTHER        -> re_split(t, LatinTerminators)

TokensOf(v, s) == IF v \in {"light", "modern"} THEN tokens_wide(s) ELSE tokens_ascii(s)

\* the score of every sentence: the sum, over the occurrences of tokens in
\* it, of the number of occurrences of the token in the whole text
SentenceScores(v, t) ==
  LET ss == SentencesOf(v, t)
  IN  [i \in 1..Len(ss) |-> SumFreq(TokensOf(v, Lower(ss[i])),
             Flatten([j \in 1..Len(ss) |-> TokensOf(v, Lower(ss[j]))]))]

\* the positions of a set in ascending order
RECURSIVE Ascending(_)
Ascending(S) ==
  IF S = {} THEN << >>
  ELSE LET m == CHOOSE x \in S : \A y \in S : x <= y
       IN  << m >> \o Ascending(S \ {m})

\* the positions the summariser selects: the k best by score,
\* an earlier sentence before a later one of the same score
SelectedPositions(v, t, k) ==
  LET ss == SentencesOf(v, t)
      sc == SentenceScores(v, t)
  IN  {i \in 1..Len(ss) :
         Cardinality({j \in 1..Len(ss) :
            sc[j] > sc[i] \/ (sc[j] = sc[i] /\ j < i)}) < k}

\* C10: for an input with more than maxSentences sentences (two of them may
\* have the same text), the summary lists the selected sentences in their
\* original relative positions, whatever their scores.
C10_OriginalOrder ==
  \A o \in out :
    LET ss == SentencesOf(variant, in_text)
    IN  (in_sentences >= 0 /\ Len(ss) > in_sentences) =>
          o = JoinWith(StripEach(Pick(ss, Ascending(
                         SelectedPositions(variant, in_text, in_sentences)))), << " " >>)

\* the orders in which the positions of a set can be listed
Orders(S) ==
  {q \in [1..Cardinality(S) -> S] : \A a, b \in DOMAIN q : a # b => q[a] # q[b]}

\* C11: for an input with more than maxSentences sentences, the summary is
\* made of exactly the maxSentences sentences of the highest score (the sum
\* over the token occurrences of a sentence of the frequency of the token in
\* the whole input), the earlier of two sentences of equal score first.
C11_TopByScoreEarlierOnTie ==
  \A o \in out :
    LET ss == SentencesOf(variant, in_text)
    IN  (in_sentences >= 1 /\ Len(ss) > in_sentences) =>
          \E ord \in Orders(SelectedPositions(variant, in_text, in_sentences)) :
            o = JoinWith(StripEach(Pick(ss, ord)), << " " >>)

\* a summary of fewer sentences than the text has was made, and of two
\* sentences of the same score and different texts the earlier one was
\* taken and the later one was not
C11_Witness ==
  /\ out # {} /\ in_sentences >= 1
  /\ Len(SentencesOf(variant, in_text)) > in_sentences
  /\ \E i, j \in 1..Len(SentencesOf(variant, in_text)) :
       /\ i < j
       /\ SentenceScores(variant, in_text)[i] = SentenceScores(variant, in_text)[j]
       /\ SentencesOf(variant, in_text)[i] # SentencesOf(variant, in_text)[j]
       /\ i \in SelectedPositions(variant, in_text, in_sentences)
       /\ j \notin SelectedPositions(variant, in_text, in_sentences)

\* the sentences of a text, trimmed, without the empty ones
TrimmedSentences(v, t) == StripAndDropEmpty(SentencesOf(v, t))

\* C12: when the input has at most maxSentences sentences the summary is
\* all of them, each trimmed, joined by single spaces in their order; an
\* input of that form comes back unchanged, and the summary of the summary
\* is the summary.
C12_FewSentencesRejoined ==
  \A o \in out :
    (/\ in_sentences >= 1
     /\ Len(SentencesOf(variant, in_text)) <= in_sentences
     /\ TrimmedSentences(variant, in_text) # << >>) =>
      /\ o = JoinWith(TrimmedSentences(variant, in_text), << " " >>)
      /\ summarise_text(variant, o, in_sentences) = o

\* C28: for every text and every maxSentences >= 0 the summary is made of at
\* most maxSentences sentences, each of them a trimmed sentence of the
\* input taken from a position of its own: the sentences of the summary are
\* those of some positions of the input, no position twice, and nothing
\* else is in it.
C28_ExtractiveAtMostK ==
  \A o \in out :
    in_sentences >= 0 =>
      LET ss == SentencesOf(variant, in_text)
      IN  \E S \in SUBSET (1..Len(ss)) :
            /\ Cardinality(S) <= in_sentences
            /\ \E ord \in Orders(S) :
                 TrimmedSentences(variant, o) = StripAndDropEmpty(Pick(ss, ord))

\* a summary of a text that has more sentences than were asked for, made of
\* as many sentences as were asked for
C28_Witness ==
  /\ out # {} /\ in_sentences >= 2
  /\ Len(TrimmedSentences(variant, in_text)) > in_sentences
  /\ \A o \in out : Len(TrimmedSentences(variant, o)) = in_sentences

\* C13: for every text and every maxSentences <= 0 the summary is the
\* empty string.
C13_NoSentencesAsked ==
  \A o \in out : in_sentences <= 0 => o = Str0

\* C14: for every k > 0 the summary of the empty string and of a string of
\* white space only is the empty string.
C14_BlankInput ==
  \A o \in out : (in_sentences > 0 /\ Strip(in_text) = Str0) => o = Str0


-----------------------------------------------------------------------------
(* Properties of the normaliser run.                                       *)

\* C15: sanitising is idempotent: the abstract of a search result, which is
\* the sanitised raw abstract, is left as it is by sanitising it again.
C15_SanitizeIdempotent ==
  \A p \in norm_out : \A a \in p.abstract : sanitize(variant, a) = a

\* C26: for every raw string the sanitised abstract holds no angle-bracket
\* tag, no named character reference in either letter case, no numeric
\* character reference, no run of two or more white-space characters, and
\* no white space at its start or end.
C26_SanitizedIsPlain ==
  \A p \in norm_out : \A a \in p.abstract :
    LET Run(i, j, Is(_)) == j >= i /\ \A k \in i..j : Is(a[k])
        IsDigit(c) == c \in {"0", "1"}
        NotClose(c) == c # ">"
        Tag == \E i \in 1..Len(a) : \E j \in (i + 2)..Len(a) :
                 a[i] = "<" /\ a[j] = ">" /\ Run(i + 1, j - 1, NotClose)
        Named == \E i \in 1..Len(a) : \E j \in (i + 2)..Len(a) :
                   a[i] = "&" /\ a[j] = ";" /\ Run(i + 1, j - 1, IsAsciiLetter)
        Numeric == \E i \in 1..Len(a) : \E j \in (i + 3)..Len(a) :
                     /\ a[i] = "&" /\ a[i + 1] = "#" /\ a[j] = ";"
                     /\ Run(i + 2, j - 1, IsDigit)
        Spaces == \E i \in 1..(Len(a) - 1) : IsSpace(a[i]) /\ IsSpace(a[i + 1])
    IN  ~ Tag /\ ~ Named /\ ~ Numeric /\ ~ Spaces /\ Strip(a) = a

\* C27: the summary of a Paper is a write-once cache: it is unset when
\* normalisation produces the Paper, and once a stored Paper has a summary
\* no later operation (display, add, setRead, save, load) changes it.
C27_SummaryWriteOnce ==
  [][/\ \A p \in norm_out' : p.summary = {}
     /\ \A i \in 1..Len(library) : \A j \in 1..Len(library') :
          ( /\ library[i].summary \notin {{}, {Str0}}
            /\ library'[j].doi = library[i].doi
            /\ library'[j].title = library[i].title )
          => library'[j].summary = library[i].summary]_vars

\* C16: the year of a search result is the first element of the date-parts
\* of the first of the sources print, online, created that is present and
\* well-formed (date-parts not empty, first element not null), and it is
\* unset only when none of the three is.
C16_YearOfFirstWellFormedSource ==
  \A p \in norm_out :
    LET srcs == << raw_item.print, raw_item.online, raw_item.created >>
        WellFormed(src) ==
          \E d \in src : d # << >> /\ d[1] # << >> /\ d[1][1] # {}
        good == { i \in 1..3 : WellFormed(srcs[i]) }
    IN  IF good = {} THEN p.year = {}
        ELSE \E i \in good :
               /\ \A j \in good : i <= j
               /\ \E d \in srcs[i] : p.year = d[1][1]

\* the authors of the search result are the ", "-joined names of the entries
\* of the item, a name being the trimmed given and family names that are
\* there and not empty with a space between them, and "Unknown" when no
\* entry has a name
AuthorsAsNamed ==
  \A p \in norm_out :
    LET NonEmpty(s) == s # Str0
        Trimmed(x) == IF x = {} THEN Str0 ELSE Strip(CHOOSE s \in x : TRUE)
        entries == raw_item.author
        names == SelectSeq(
                   [i \in 1..Len(entries) |->
                      JoinWith(SelectSeq(<< Trimmed(entries[i].given),
                                            Trimmed(entries[i].family) >>,
                                         NonEmpty), << " " >>)], NonEmpty)
    IN  p.authors = IF names = << >> THEN << "Unknown" >>
                    ELSE JoinWith(names, << ",", " " >>)

C22_BadHitAloneSkipped ==
  \A r \in search_out :
    LET good == SelectSeq(response, LAMBDA it : ~ from_crossref_raises(it))
    IN  /\ ~ r.raised
        /\ Len(r.papers) = Len(good)
        /\ \A i \in 1..Len(good) :
             r.papers[i].doi = (CHOOSE d \in good[i].DOI : TRUE)

-----------------------------------------------------------------------------
(* Properties of the extraction run.                                       *)

\* the texts of the pages among the first max_pages that gave text, joined
\* with newlines
TextOfPagesThatGaveText(max_pages) ==
  LET n == IF Len(pdf_doc.pages) < max_pages THEN Len(pdf_doc.pages) ELSE max_pages
      gave(pg) == ~ pg.raises /\ pg.text # Str0
      kept == SelectSeq(SubSeq(pdf_doc.pages, 1, n), gave)
  IN  JoinWith([i \in 1..Len(kept) |-> kept[i].text], << "\n" >>)

\* C23: a page among the first maxPages that fails or gives no text is
\* skipped: the text extracted is that of the remaining pages among the
\* first min(totalPages, maxPages), in page order and joined with newlines,
\* and the total page count comes with it (light); the summary is the
\* summary of that text (modern, which does not hand out the text).
C23_PageFailureSkipped ==
  \A x \in extracted :
    (has_reader /\ pdf_doc.readable) =>
      /\ \A e \in x.e :
           /\ e.text = TextOfPagesThatGaveText(MaxPagesLight)
           /\ e.pages = {Len(pdf_doc.pages)}
      /\ variant = "modern" =>
           x.summary =
             LET full == Strip(TextOfPagesThatGaveText(MaxPagesModern))
             IN  IF full = Str0 THEN << "MSG_NO_TEXT" >>
                 ELSE summarise_text_modern(full, SUMMARY_SENTENCES)

=============================================================================
